---------------------------- MODULE Spec2Model ----------------------------
(***************************************************************************)
(* Verification model of the itinerary planner repository:                 *)
(*   - the pydantic response/request models (outputSchema.py,              *)
(*     inputSchema.py): construction and validated assignment;             *)
(*   - the persistence tool validate_and_save_itinerary (planner tools);   *)
(*   - the hotel tools hotels_search, hotel_details_and_prices and         *)
(*     hotels_analyze together with the argument checks of the Google      *)
(*     Places wrappers they call.                                          *)
(* Every part has its own specification over the shared variables; a part  *)
(* leaves the variables of the other parts unchanged.                      *)
(***************************************************************************)
EXTENDS Integers, Sequences, FiniteSets, TLC

VARIABLES
    built,      \* result of the last model construction (DayPlan / ItineraryResponse)
    resp,       \* a live ItineraryResponse object (after construction)
    dr,         \* a live DateRange object (after construction)
    outcome,    \* what the last attribute assignment did
    pc,         \* position of the validate_and_save_itinerary call
    input,      \* the itinerary_json argument of that call
    result,     \* the value the call returned
    files,      \* file system: path -> content
    files0,     \* file system before the call
    op,         \* the last hotel tool invocation (arguments and provider behaviour)
    res,        \* the value that invocation produced
    procs,      \* concurrent tool calls: call -> its arguments, position and result
    _ENV_LOADED,    \* env_utils._ENV_LOADED
    environ,    \* os.environ: name -> value
    dotenv,     \* the root .env file: whether find_dotenv finds it, and its values
    loads,      \* how often load_dotenv was called
    got         \* the calls of env_utils made so far and what the last get_env returned

vars ==
    <<built, resp, dr, outcome, pc, input, result, files, files0, op, res, procs,
      _ENV_LOADED, environ, dotenv, loads, got>>

varsModel == <<built, resp, dr, outcome>>
varsSave == <<pc, input, result, files, files0>>
varsHotels == <<op, res>>
varsConcurrent == <<procs>>
varsEnv == <<_ENV_LOADED, environ, dotenv, loads, got>>

(***************************************************************************)
(* Bounds of the model.                                                    *)
(***************************************************************************)
MaxPlaces == 3
MaxDays == 2
MaxLivePlaces == 2
MaxDate == 2
MaxNumDays == 2
MaxKeys == 3
MaxHits == 2

(***************************************************************************)
(* Generic helpers (Python built-ins used by the code).                    *)
(***************************************************************************)
SeqsUpTo(S, n) == UNION {[1..k -> S] : k \in 0..n}

Range(s) == {s[i] : i \in DOMAIN s}

\* Python min() of a non-empty list
PyMin(s) == CHOOSE x \in Range(s) : \A y \in Range(s) : x <= y

\* insert x into the ascending list s, after the elements <= x
RECURSIVE InsertSorted(_, _)
InsertSorted(x, s) ==
    IF s = <<>> THEN <<x>>
    ELSE IF x < Head(s) THEN <<x>> \o s
    ELSE <<Head(s)>> \o InsertSorted(x, Tail(s))

\* Python sorted() of a list of integers
RECURSIVE PySorted(_)
PySorted(s) ==
    IF s = <<>> THEN <<>>
    ELSE InsertSorted(s[Len(s)], PySorted(SubSeq(s, 1, Len(s) - 1)))

\* Python list(range(1, n + 1))
PyRange1(n) == [i \in 1..n |-> i]

(***************************************************************************)
(* Values as they arrive from JSON / Python callers: a coordinate is       *)
(* either a number (int or float) or a string.                             *)
(***************************************************************************)
NumV(x) == [num |-> TRUE, v |-> x]
StrV(x) == [num |-> FALSE, v |-> x]

\* latitude inputs: below range, the bounds, inside, above range, and the text "41.0"
LatInputs == {NumV(-91), NumV(0), NumV(90), NumV(91), StrV(41)}
LonInputs == {NumV(-181), NumV(0), NumV(180), NumV(181), StrV(29)}

MaxOrder == MaxPlaces + 1
MaxDayOrder == MaxDays + 1

(***************************************************************************)
(* outputSchema.py: Place                                                  *)
(***************************************************************************)
\* mutant: a string that reads as a number is converted
M_latlon_numeric_only(v) == TRUE

\* @field_validator("lat", "lon", mode="before"): isinstance(v, (int, float))
_latlon_numeric_only(v) == v.num

\* lat: float = Field(..., ge=-90, le=90)
LatFieldOk(v) == _latlon_numeric_only(v) /\ v.v >= -90 /\ v.v <= 90

\* lon: float = Field(..., ge=-180, le=180)
LonFieldOk(v) == _latlon_numeric_only(v) /\ v.v >= -180 /\ v.v <= 180

\* order: int = Field(..., ge=1)
OrderFieldOk(o) == o >= 1

\* Place(**p): every field validator passes
PlaceOk(p) == OrderFieldOk(p.order) /\ LatFieldOk(p.lat) /\ LonFieldOk(p.lon)

\* what Place(**p) raises: the TypeError of _latlon_numeric_only leaves the
\* validation at once, a constraint that fails is reported as ValidationError
PlaceError(p) ==
    IF ~_latlon_numeric_only(p.lat) \/ ~_latlon_numeric_only(p.lon) THEN "TypeError"
    ELSE IF ~PlaceOk(p) THEN "ValidationError"
    ELSE "none"

(***************************************************************************)
(* outputSchema.py: DayPlan                                                *)
(***************************************************************************)
\* mutant: the list is compared without sorting it first
M_check_places_order(places) ==
    IF places # <<>>
    THEN LET orders == [i \in DOMAIN places |-> places[i].order]
         IN ~(PyMin(orders) # 1 \/ orders # PyRange1(Len(orders)))
    ELSE TRUE

\* @model_validator(mode="after") _check_places_order: TRUE when it returns self,
\* FALSE when it raises ValueError
_check_places_order(places) ==
    IF places # <<>>
    THEN LET orders == [i \in DOMAIN places |-> places[i].order]
         IN ~(PyMin(orders) # 1 \/ PySorted(orders) # PyRange1(Len(orders)))
    ELSE TRUE

\* DayPlan(**d): field validation of order and of every place, then the
\* after-validator
DayPlanOk(d) ==
    /\ OrderFieldOk(d.order)
    /\ \A i \in DOMAIN d.places : PlaceOk(d.places[i])
    /\ _check_places_order(d.places)

(***************************************************************************)
(* outputSchema.py: HotelInformation, ItineraryResponse                    *)
(***************************************************************************)
\* lat: float = Field(..., ge=-90, le=90); lon: float = Field(..., ge=-180, le=180)
\* (no numeric-only validator here: pydantic coerces a numeric string)
HotelInformationOk(h) ==
    /\ h.lat.v >= -90 /\ h.lat.v <= 90
    /\ h.lon.v >= -180 /\ h.lon.v <= 180

\* mutant: only the first and the largest order are looked at
M_check_day_orders(day_plans) ==
    IF day_plans # <<>>
    THEN LET orders == [i \in DOMAIN day_plans |-> day_plans[i].order]
         IN PyMin(orders) = 1 /\ \A i \in DOMAIN orders : orders[i] <= Len(orders)
    ELSE TRUE

\* @model_validator(mode="after") _check_day_orders
_check_day_orders(day_plans) ==
    IF day_plans # <<>>
    THEN LET orders == [i \in DOMAIN day_plans |-> day_plans[i].order]
         IN ~(PyMin(orders) # 1 \/ PySorted(orders) # PyRange1(Len(orders)))
    ELSE TRUE

\* ItineraryResponse(**r)
ItineraryResponseOk(r) ==
    /\ HotelInformationOk(r.hotel_information)
    /\ \A i \in DOMAIN r.day_plans : DayPlanOk(r.day_plans[i])
    /\ _check_day_orders(r.day_plans)

(***************************************************************************)
(* Construction of the response models from raw input (SpecConstruct).     *)
(***************************************************************************)
\* places of a DayPlan under construction: order 0 violates ge=1, 91 is out of range
PlaceInputs ==
    [order : 0..MaxOrder, lat : {NumV(0)}, lon : {NumV(0)}]
    \cup {[order |-> 1, lat |-> NumV(91), lon |-> NumV(0)]}

DayPlanInputs == [order : 0..1, places : SeqsUpTo(PlaceInputs, MaxPlaces)]

P(o) == [order |-> o, lat |-> NumV(0), lon |-> NumV(0)]

\* place lists of the days of an ItineraryResponse under construction
PlaceListSamples == {<<>>, <<P(1)>>, <<P(2), P(1)>>, <<P(1), P(3)>>}

HotelInputs == [lat : {NumV(0), NumV(91)}, lon : {NumV(0)}]

ResponseInputs ==
    [hotel_information : HotelInputs,
     day_plans : SeqsUpTo([order : 0..MaxDayOrder, places : PlaceListSamples], MaxDays)]

NoBuild == [cls |-> "none", ok |-> FALSE, places |-> <<>>, day_plans |-> <<>>,
            fieldsOk |-> FALSE]

\* Place(order=..., lat=..., lon=...): place keeps the arguments
ConstructPlace(p) ==
    /\ built.cls = "none"
    /\ built' = [cls |-> "Place", ok |-> PlaceError(p) = "none", places |-> <<>>,
                 day_plans |-> <<>>,
                 fieldsOk |-> PlaceOk(p), place |-> p, error |-> PlaceError(p)]
    /\ UNCHANGED <<resp, dr, outcome>>
    /\ UNCHANGED varsSave
    /\ UNCHANGED varsConcurrent
    /\ UNCHANGED varsEnv
    /\ UNCHANGED varsHotels

\* DayPlan(order=..., places=[...]): ok = no ValidationError
ConstructDayPlan(d) ==
    /\ built.cls = "none"
    /\ built' = [cls |-> "DayPlan", ok |-> DayPlanOk(d), places |-> d.places,
                 day_plans |-> <<>>,
                 fieldsOk |-> /\ d.order >= 1
                              /\ \A i \in DOMAIN d.places :
                                    /\ LatFieldOk(d.places[i].lat)
                                    /\ LonFieldOk(d.places[i].lon)]
    /\ UNCHANGED <<resp, dr, outcome>>
    /\ UNCHANGED varsSave
    /\ UNCHANGED varsConcurrent
    /\ UNCHANGED varsEnv
    /\ UNCHANGED varsHotels

\* ItineraryResponse(hotel_information=..., day_plans=[...])
ConstructItineraryResponse(r) ==
    /\ built.cls = "none"
    /\ built' = [cls |-> "ItineraryResponse", ok |-> ItineraryResponseOk(r),
                 places |-> <<>>, day_plans |-> r.day_plans,
                 fieldsOk |-> HotelInformationOk(r.hotel_information)]
    /\ UNCHANGED <<resp, dr, outcome>>
    /\ UNCHANGED varsSave
    /\ UNCHANGED varsConcurrent
    /\ UNCHANGED varsEnv
    /\ UNCHANGED varsHotels

(***************************************************************************)
(* inputSchema.py: DateRange.  Dates are day numbers; end_date is          *)
(* Optional[date]: [some |-> FALSE] is None.                               *)
(***************************************************************************)
NoneDate == [some |-> FALSE, v |-> 0]
SomeDate(x) == [some |-> TRUE, v |-> x]

\* mutant: the derived end date is the start date itself and the check is dropped
M_set_or_check_end(d) ==
    [ok |-> TRUE,
     value |-> IF ~d.end_date.some
               THEN [d EXCEPT !.end_date = SomeDate(d.start_date)]
               ELSE d]

\* @model_validator(mode="after") _set_or_check_end: the object it leaves and
\* whether it returned (ok) or raised ValueError
_set_or_check_end(d) ==
    LET filled == IF ~d.end_date.some
                  THEN [d EXCEPT !.end_date = SomeDate(d.start_date + d.number_of_days)]
                  ELSE d
    IN [ok |-> ~(filled.end_date.v < filled.start_date), value |-> filled]

\* number_of_days: int = Field(default=3, ge=1)
NumberOfDaysFieldOk(n) == n >= 1

DateRangeInputs ==
    [start_date : 0..MaxDate,
     end_date : {NoneDate} \cup {SomeDate(x) : x \in 0..(MaxDate + MaxNumDays)},
     number_of_days : 0..MaxNumDays]

\* DateRange(**d)
DateRangeOk(d) == NumberOfDaysFieldOk(d.number_of_days) /\ _set_or_check_end(d).ok

\* DateRange(start_date=..., end_date=..., number_of_days=...): the field
\* constraints, then _set_or_check_end; range keeps the arguments
ConstructDateRange(d) ==
    /\ built.cls = "none"
    /\ built' = [cls |-> "DateRange", ok |-> DateRangeOk(d), places |-> <<>>,
                 day_plans |-> <<>>, fieldsOk |-> NumberOfDaysFieldOk(d.number_of_days),
                 range |-> d]
    /\ dr' = IF DateRangeOk(d) THEN _set_or_check_end(d).value ELSE dr
    /\ UNCHANGED <<resp, outcome>>
    /\ UNCHANGED varsSave
    /\ UNCHANGED varsConcurrent
    /\ UNCHANGED varsEnv
    /\ UNCHANGED varsHotels

(***************************************************************************)
(* Attribute assignment on live models (validate_assignment=True).         *)
(* pydantic validates the assigned field, stores it in the object and only *)
(* then runs the model's own after-validator; the validator of a           *)
(* containing model is not run.  Whether a failing after-validator leaves  *)
(* the stored value in place depends on the pydantic release: both         *)
(* outcomes are modelled (keep).  built.cls names the object that is live. *)
(***************************************************************************)
LivePlaceInputs == [order : 0..(MaxLivePlaces + 1), lat : {NumV(0)}, lon : {NumV(0)}]

LiveDayInputs ==
    [order : 0..MaxDayOrder, places : SeqsUpTo(LivePlaceInputs, MaxLivePlaces)]

LiveResponseInputs ==
    [hotel_information : [lat : {NumV(0)}, lon : {NumV(0)}],
     day_plans : SeqsUpTo(LiveDayInputs, MaxDays)]

\* day lists offered to `resp.day_plans = [...]`
DayPlansAssignInputs ==
    SeqsUpTo([order : 0..MaxDayOrder, places : {<<>>, <<P(1)>>}], MaxDays)

\* resp.day_plans[d].places[i].order = v   (Place.__setattr__)
AssignPlaceOrder(d, i, v) ==
    /\ built.cls = "ItineraryResponse"
    /\ d \in DOMAIN resp.day_plans
    /\ i \in DOMAIN resp.day_plans[d].places
    /\ IF OrderFieldOk(v)
       THEN /\ resp' = [resp EXCEPT !.day_plans[d].places[i].order = v]
            /\ outcome' = "accepted"
       ELSE /\ resp' = resp
            /\ outcome' = "rejected"
    /\ UNCHANGED <<built, dr>>
    /\ UNCHANGED varsSave
    /\ UNCHANGED varsConcurrent
    /\ UNCHANGED varsEnv
    /\ UNCHANGED varsHotels

\* resp.day_plans[d].order = v   (DayPlan.__setattr__)
AssignDayOrder(d, v, keep) ==
    /\ built.cls = "ItineraryResponse"
    /\ d \in DOMAIN resp.day_plans
    /\ IF ~OrderFieldOk(v)
       THEN resp' = resp /\ outcome' = "rejected"
       ELSE IF _check_places_order(resp.day_plans[d].places)
       THEN /\ resp' = [resp EXCEPT !.day_plans[d].order = v]
            /\ outcome' = "accepted"
       ELSE /\ resp' = IF keep THEN [resp EXCEPT !.day_plans[d].order = v] ELSE resp
            /\ outcome' = "rejected"
    /\ UNCHANGED <<built, dr>>
    /\ UNCHANGED varsSave
    /\ UNCHANGED varsConcurrent
    /\ UNCHANGED varsEnv
    /\ UNCHANGED varsHotels

\* resp.day_plans[d].places = ps   (DayPlan.__setattr__)
AssignDayPlaces(d, ps, keep) ==
    /\ built.cls = "ItineraryResponse"
    /\ d \in DOMAIN resp.day_plans
    /\ IF ~(\A i \in DOMAIN ps : PlaceOk(ps[i]))
       THEN resp' = resp /\ outcome' = "rejected"
       ELSE IF _check_places_order(ps)
       THEN /\ resp' = [resp EXCEPT !.day_plans[d].places = ps]
            /\ outcome' = "accepted"
       ELSE /\ resp' = IF keep THEN [resp EXCEPT !.day_plans[d].places = ps] ELSE resp
            /\ outcome' = "rejected"
    /\ UNCHANGED <<built, dr>>
    /\ UNCHANGED varsSave
    /\ UNCHANGED varsConcurrent
    /\ UNCHANGED varsEnv
    /\ UNCHANGED varsHotels

\* resp.day_plans = ds   (ItineraryResponse.__setattr__)
AssignDayPlans(ds, keep) ==
    /\ built.cls = "ItineraryResponse"
    /\ IF ~(\A i \in DOMAIN ds : DayPlanOk(ds[i]))
       THEN resp' = resp /\ outcome' = "rejected"
       ELSE IF _check_day_orders(ds)
       THEN /\ resp' = [resp EXCEPT !.day_plans = ds]
            /\ outcome' = "accepted"
       ELSE /\ resp' = IF keep THEN [resp EXCEPT !.day_plans = ds] ELSE resp
            /\ outcome' = "rejected"
    /\ UNCHANGED <<built, dr>>
    /\ UNCHANGED varsSave
    /\ UNCHANGED varsConcurrent
    /\ UNCHANGED varsEnv
    /\ UNCHANGED varsHotels

\* resp.hotel_information.lat = v   (HotelInformation.__setattr__; float(v))
AssignHotelLat(v) ==
    /\ built.cls = "ItineraryResponse"
    /\ IF HotelInformationOk([resp.hotel_information EXCEPT !.lat = v])
       THEN /\ resp' = [resp EXCEPT !.hotel_information.lat = NumV(v.v)]
            /\ outcome' = "accepted"
       ELSE /\ resp' = resp
            /\ outcome' = "rejected"
    /\ UNCHANGED <<built, dr>>
    /\ UNCHANGED varsSave
    /\ UNCHANGED varsConcurrent
    /\ UNCHANGED varsEnv
    /\ UNCHANGED varsHotels

\* dr.<field> = value: the field is stored, then _set_or_check_end runs
AssignDateRange(d, keep) ==
    LET chk == _set_or_check_end(d)
    IN /\ built.cls = "DateRange"
       /\ IF ~NumberOfDaysFieldOk(d.number_of_days)
          THEN dr' = dr /\ outcome' = "rejected"
          ELSE IF chk.ok
          THEN dr' = chk.value /\ outcome' = "accepted"
          ELSE /\ dr' = IF keep THEN chk.value ELSE dr
               /\ outcome' = "rejected"
       /\ UNCHANGED <<built, resp>>
       /\ UNCHANGED varsSave
       /\ UNCHANGED varsConcurrent
       /\ UNCHANGED varsEnv
       /\ UNCHANGED varsHotels

\* dr.start_date = v
AssignStartDate(v, keep) == AssignDateRange([dr EXCEPT !.start_date = v], keep)

\* dr.end_date = v (a date or None)
AssignEndDate(v, keep) == AssignDateRange([dr EXCEPT !.end_date = v], keep)

\* dr.number_of_days = v
AssignNumberOfDays(v, keep) == AssignDateRange([dr EXCEPT !.number_of_days = v], keep)

(***************************************************************************)
(* planner_agent/tools.py: validate_and_save_itinerary.                    *)
(* The argument is JSON text.  kind says what json.loads makes of it:      *)
(* "malformed" (JSONDecodeError), "number", "array" or "object".  An       *)
(* object lists its member names in the order of the text (a name may      *)
(* repeat) and carries the values of hotel_information and day_plans.      *)
(***************************************************************************)
Keys == {"hotel_information", "day_plans", "notes"}

\* hotel_information values: a dict with a name, a dict without one, a dict
\* whose latitude is out of range, a dict whose name is a number, and null
HotelDoc(isDict, name, lat) == [dict |-> isDict, name |-> name, lat |-> lat, lon |-> NumV(0)]
NoHotel == HotelDoc(FALSE, "missing", NumV(0))
HotelDocs ==
    {HotelDoc(TRUE, "Ritz", NumV(0)), HotelDoc(TRUE, "missing", NumV(0)),
     HotelDoc(TRUE, "Ritz", NumV(91)), HotelDoc(TRUE, "number", NumV(0)), NoHotel}

D(o, ps) == [order |-> o, places |-> ps]

\* day_plans values: valid lists, a gap in the day orders, a gap in the place orders
DayListDocs ==
    {<<>>, <<D(1, <<P(1)>>)>>, <<D(2, <<>>), D(1, <<>>)>>,
     <<D(1, <<>>), D(3, <<>>)>>, <<D(1, <<P(1), P(3)>>)>>}

JsonInputs ==
    [kind : {"object"}, keys : SeqsUpTo(Keys, MaxKeys), hotel : HotelDocs, days : DayListDocs]
    \cup [kind : {"malformed", "number", "array"}, keys : {<<>>}, hotel : {NoHotel},
          days : {<<>>}]

NoInput == [kind |-> "malformed", keys |-> <<>>, hotel |-> NoHotel, days |-> <<>>]

\* the member names of a Python dict built from the text: each name once, at the
\* place of its first occurrence
RECURSIVE DictKeys(_)
DictKeys(ks) ==
    IF ks = <<>> THEN <<>>
    ELSE LET init == DictKeys(SubSeq(ks, 1, Len(ks) - 1))
             last == ks[Len(ks)]
         IN IF last \in Range(init) THEN init ELSE Append(init, last)

\* json.loads(itinerary_json)
json_loads(doc) == [doc EXCEPT !.keys = DictKeys(doc.keys)]

\* the member names in alphabetical order
AlphaKeys == <<"day_plans", "hotel_information", "notes">>

\* mutant: json.dump(..., sort_keys=True)
M_json_dump(data) ==
    [state |-> "written",
     keys |-> SelectSeq(AlphaKeys, LAMBDA k : k \in Range(data.keys)),
     hotel |-> data.hotel, days |-> data.days]

\* json.dump(itinerary_data, f, indent=2, ensure_ascii=False): the file's content
json_dump(data) ==
    [state |-> "written", keys |-> data.keys, hotel |-> data.hotel, days |-> data.days]

\* a file that does not exist, a file left by an earlier run, a file that was
\* opened for writing (truncated) and not written to the end
Absent == [state |-> "absent", keys |-> <<>>, hotel |-> NoHotel, days |-> <<>>]
OldFile == [state |-> "old", keys |-> <<>>, hotel |-> NoHotel, days |-> <<>>]
Truncated == [state |-> "partial", keys |-> <<>>, hotel |-> NoHotel, days |-> <<>>]

\* safe_hotel_name: hotel_information.get("name", "unknown_hotel"), sanitised
SafeHotelName(hotel) == IF hotel.name = "missing" THEN "unknown_hotel" ELSE hotel.name

\* archive_path (the timestamp of the call is fixed) and frontend_path
ArchivePath(hotel) == "output/itinerary_" \o SafeHotelName(hotel)
FrontendPath == "frontend/output.json"

Paths == {FrontendPath, ArchivePath(HotelDoc(TRUE, "Ritz", NumV(0))), ArchivePath(NoHotel)}

\* where an I/O operation of the call fails: nowhere, output_dir.mkdir, open() of
\* one of the two files, or the write into it
IOFailures ==
    {"none", "mkdir", "open_archive", "write_archive", "open_frontend", "write_frontend"}

ErrorResult(msg) == [raised |-> FALSE, status |-> "error", message |-> msg, file_path |-> "none"]

\* mutant: only hotel_information is looked for
M_MissingKey(data) ==
    IF "hotel_information" \notin Range(data.keys) THEN "hotel_information"
    ELSE "none"

\* lines 23-35: the required key that is missing, if any
MissingKey(data) ==
    IF "hotel_information" \notin Range(data.keys) THEN "hotel_information"
    ELSE IF "day_plans" \notin Range(data.keys) THEN "day_plans"
    ELSE "none"

\* mutant: only the archival copy is written
M_WriteBoth(data, fs, fail) ==
    LET archive == ArchivePath(data.hotel)
    IN IF fail = "open_archive" THEN [ok |-> FALSE, fs |-> fs]
       ELSE IF fail = "write_archive"
       THEN [ok |-> FALSE, fs |-> [fs EXCEPT ![archive] = Truncated]]
       ELSE [ok |-> TRUE, fs |-> [fs EXCEPT ![archive] = json_dump(data)]]

\* lines 58-60: for file_path in [archive_path, frontend_path]: open, json.dump
WriteBoth(data, fs, fail) ==
    LET archive == ArchivePath(data.hotel)
        fs1 == [fs EXCEPT ![archive] = json_dump(data)]
    IN IF fail = "open_archive" THEN [ok |-> FALSE, fs |-> fs]
       ELSE IF fail = "write_archive"
       THEN [ok |-> FALSE, fs |-> [fs EXCEPT ![archive] = Truncated]]
       ELSE IF fail = "open_frontend" THEN [ok |-> FALSE, fs |-> fs1]
       ELSE IF fail = "write_frontend"
       THEN [ok |-> FALSE, fs |-> [fs1 EXCEPT ![FrontendPath] = Truncated]]
       ELSE [ok |-> TRUE, fs |-> [fs1 EXCEPT ![FrontendPath] = json_dump(data)]]

Raise(exc, fs) == [exc |-> exc, result |-> ErrorResult(""), fs |-> fs]
Return(r, fs) == [exc |-> "none", result |-> r, fs |-> fs]

\* lines 18-66, the body of the try: the exception it raises ("none": it returns),
\* the value it returns and the file system it leaves
SaveTry(doc, fs, fail) ==
    LET data == json_loads(doc)
        w == WriteBoth(data, fs, fail)
    IN IF doc.kind = "malformed" THEN Raise("JSONDecodeError", fs)
       \* '"hotel_information" not in 5'
       ELSE IF doc.kind = "number" THEN Raise("TypeError", fs)
       ELSE IF doc.kind = "array" \/ MissingKey(data) = "hotel_information"
       THEN Return(ErrorResult("Missing hotel_information in JSON"), fs)
       ELSE IF MissingKey(data) = "day_plans"
       THEN Return(ErrorResult("Missing day_plans in JSON"), fs)
       ELSE IF fail = "mkdir" THEN Raise("OSError", fs)
       \* .get("name") on a value that is no dict
       ELSE IF ~data.hotel.dict THEN Raise("AttributeError", fs)
       \* iterating a name that is no string
       ELSE IF data.hotel.name = "number" THEN Raise("TypeError", fs)
       ELSE IF ~w.ok THEN Raise("OSError", w.fs)
       ELSE Return([raised |-> FALSE, status |-> "success",
                    message |-> "Itinerary saved to archive and frontend",
                    file_path |-> ArchivePath(data.hotel)], w.fs)

\* mutant: only the JSON error is caught
M_validate_and_save_itinerary(doc, fs, fail) ==
    LET t == SaveTry(doc, fs, fail)
    IN IF t.exc = "none" THEN [result |-> t.result, fs |-> t.fs]
       ELSE IF t.exc = "JSONDecodeError"
       THEN [result |-> ErrorResult("Invalid JSON format"), fs |-> t.fs]
       ELSE [result |-> [ErrorResult("") EXCEPT !.raised = TRUE], fs |-> t.fs]

\* the whole function (try, except json.JSONDecodeError, except Exception): the
\* value returned and the file system it leaves
validate_and_save_itinerary(doc, fs, fail) ==
    LET t == SaveTry(doc, fs, fail)
    IN IF t.exc = "none" THEN [result |-> t.result, fs |-> t.fs]
       ELSE IF t.exc = "JSONDecodeError"
       THEN [result |-> ErrorResult("Invalid JSON format"), fs |-> t.fs]
       ELSE [result |-> ErrorResult("Error saving itinerary"), fs |-> t.fs]

NoResult == [raised |-> FALSE, status |-> "none", message |-> "", file_path |-> "none"]

\* one call of the tool
SaveCall(doc, fail) ==
    /\ pc = "idle"
    /\ LET r == validate_and_save_itinerary(doc, files, fail)
       IN /\ result' = r.result
          /\ files' = r.fs
    /\ input' = doc
    /\ pc' = "done"
    /\ UNCHANGED files0
    /\ UNCHANGED varsConcurrent
    /\ UNCHANGED varsEnv
    /\ UNCHANGED varsModel
    /\ UNCHANGED varsHotels

(***************************************************************************)
(* outputSchema.py: _coerce_date_like.  A value is a date, a datetime, a    *)
(* string or something else (t).  A string is three digit groups joined by *)
(* one separator, or text without that shape (sep = "none"); a digit group *)
(* is its number v and its width w, so "1" and "01" differ.                *)
(***************************************************************************)
Tok(v, w) == [v |-> v, w |-> w]

NoToks == <<Tok(0, 0), Tok(0, 0), Tok(0, 0)>>

DateStr(sep, f) == [t |-> "str", sep |-> sep, f |-> f, hour |-> 0]
DateObj(d, m, y) == [t |-> "date", sep |-> "none", f |-> <<Tok(d, 2), Tok(m, 2), Tok(y, 4)>>, hour |-> 0]
DateTimeObj(d, m, y, h) == [DateObj(d, m, y) EXCEPT !.t = "datetime", !.hour = h]
OtherValue(t) == [t |-> t, sep |-> "none", f |-> NoToks, hour |-> 0]

IsLeap(y) == (y % 4 = 0 /\ y % 100 # 0) \/ y % 400 = 0

DaysIn(m, y) ==
    IF m \in {4, 6, 9, 11} THEN 30
    ELSE IF m = 2 THEN (IF IsLeap(y) THEN 29 ELSE 28)
    ELSE 31

\* the directives of strptime: %d and %m take one or two digits, %Y takes four
MatchesDirective(tok, dir) ==
    IF dir = "Y" THEN tok.w = 4 /\ tok.v >= 1
    ELSE /\ tok.w \in {1, 2}
         /\ (tok.w = 1 => tok.v <= 9)
         /\ tok.v >= 1
         /\ tok.v <= (IF dir = "d" THEN 31 ELSE 12)

\* a format: its separator and the order of its directives
Fmt(sep, dirs) == [sep |-> sep, dirs |-> dirs]

DATE_FMT == Fmt(".", <<"d", "m", "Y">>)

\* mutant: mm/dd/yyyy is tried before dd/mm/yyyy
M_DateFormats ==
    <<DATE_FMT, Fmt("-", <<"Y", "m", "d">>), Fmt("/", <<"Y", "m", "d">>),
      Fmt("/", <<"m", "d", "Y">>), Fmt("/", <<"d", "m", "Y">>)>>

\* the tuple of formats in the for statement, in its order
DateFormats ==
    <<DATE_FMT, Fmt("-", <<"Y", "m", "d">>), Fmt("/", <<"Y", "m", "d">>),
      Fmt("/", <<"d", "m", "Y">>), Fmt("/", <<"m", "d", "Y">>)>>

NoDate == [ok |-> FALSE, d |-> 0, m |-> 0, y |-> 0]

\* datetime.strptime(s, fmt): ok = no ValueError
strptime(s, fmt) ==
    LET field(dir) == s.f[CHOOSE i \in 1..3 : fmt.dirs[i] = dir].v
    IN IF s.sep # fmt.sep THEN NoDate
       ELSE IF \E i \in 1..3 : ~MatchesDirective(s.f[i], fmt.dirs[i]) THEN NoDate
       ELSE IF field("d") > DaysIn(field("m"), field("Y")) THEN NoDate
       ELSE [ok |-> TRUE, d |-> field("d"), m |-> field("m"), y |-> field("Y")]

\* the digits %Y writes: four, except that for a year below 1000 the C library
\* decides whether leading zeros are written (pads) or not (glibc)
YearWidth(y, pads) ==
    IF pads \/ y >= 1000 THEN 4
    ELSE IF y >= 100 THEN 3
    ELSE IF y >= 10 THEN 2
    ELSE 1

\* strftime(DATE_FMT): two digits, two digits, the year
strftime(d, m, y, pads) == DateStr(".", <<Tok(d, 2), Tok(m, 2), Tok(y, YearWidth(y, pads))>>)

Returned(v) == [raised |-> FALSE, value |-> v]
RaisedTypeError == [raised |-> TRUE, value |-> OtherValue("TypeError")]

\* the for statement from its k-th format on; the string itself when none parses
RECURSIVE TryFormats(_, _, _, _)
TryFormats(v, fmts, k, pads) ==
    IF k > Len(fmts) THEN v
    ELSE LET p == strptime(v, fmts[k])
         IN IF p.ok THEN strftime(p.d, p.m, p.y, pads)
            ELSE TryFormats(v, fmts, k + 1, pads)

\* _coerce_date_like(v), on a platform whose strftime pads early years or not
_coerce_date_like(v, pads) ==
    IF v.t = "date" THEN Returned(strftime(v.f[1].v, v.f[2].v, v.f[3].v, pads))
    ELSE IF v.t = "datetime" THEN Returned(strftime(v.f[1].v, v.f[2].v, v.f[3].v, pads))
    ELSE IF v.t = "str" THEN Returned(TryFormats(v, DateFormats, 1, pads))
    ELSE RaisedTypeError

\* DayPlan._date_ok: the value the field date keeps
_date_ok(v, pads) == _coerce_date_like(v, pads)

\* HotelInformation._dates_ok: the value check_in or check_out keeps
_dates_ok(v, pads) ==
    IF v.t = "NoneType" THEN Returned(v) ELSE _coerce_date_like(v, pads)

\* digit groups of the strings tried: days, months and years, with and without
\* a leading zero, a day no month has and a number no month is
DateToks ==
    {Tok(1, 1), Tok(1, 2), Tok(2, 2), Tok(12, 2), Tok(13, 2), Tok(29, 2), Tok(31, 2),
     Tok(32, 2), Tok(2024, 4), Tok(2025, 4), Tok(999, 4)}

DateLikeInputs ==
    {DateStr(sep, <<a, b, c>>) : sep \in {".", "-", "/"}, a \in DateToks,
                                 b \in DateToks, c \in DateToks}
    \cup {DateStr("none", NoToks)}
    \cup {DateObj(29, 2, 2024), DateObj(1, 12, 2025), DateObj(1, 1, 999)}
    \cup {DateTimeObj(29, 2, 2024, 0), DateTimeObj(1, 12, 2025, 23)}
    \cup {OtherValue("int"), OtherValue("NoneType")}

\* a call of _coerce_date_like
CoerceDateLike(v, pads) ==
    /\ op.tool = "none"
    /\ op' = [tool |-> "_coerce_date_like", arg |-> v, pads |-> pads]
    /\ res' = _coerce_date_like(v, pads)
    /\ UNCHANGED varsModel
    /\ UNCHANGED varsSave
    /\ UNCHANGED varsConcurrent
    /\ UNCHANGED varsEnv

\* the values given for a date field: strings with dots, dates, None
FieldDateInputs ==
    {v \in DateLikeInputs : v.t \in {"date", "datetime"} \/ (v.t = "str" /\ v.sep = ".")}
    \cup {DateStr("none", NoToks), DateStr("-", <<Tok(2025, 4), Tok(12, 2), Tok(1, 2)>>)}

\* validation of the field date of a DayPlan
ValidateDayPlanDate(v, pads) ==
    /\ op.tool = "none"
    /\ op' = [tool |-> "DayPlan._date_ok", arg |-> v, pads |-> pads]
    /\ res' = _date_ok(v, pads)
    /\ UNCHANGED varsModel
    /\ UNCHANGED varsSave
    /\ UNCHANGED varsConcurrent
    /\ UNCHANGED varsEnv

\* validation of the field check_in or check_out of a HotelInformation
ValidateHotelDate(v, pads) ==
    /\ op.tool = "none"
    /\ op' = [tool |-> "HotelInformation._dates_ok", arg |-> v, pads |-> pads]
    /\ res' = _dates_ok(v, pads)
    /\ UNCHANGED varsModel
    /\ UNCHANGED varsSave
    /\ UNCHANGED varsConcurrent
    /\ UNCHANGED varsEnv

(***************************************************************************)
(* hotels_agent/tools.py.  Optional arguments: [some |-> FALSE] is None.   *)
(***************************************************************************)
NoneV == [some |-> FALSE, v |-> 0]
SomeV(x) == [some |-> TRUE, v |-> x]

\* mutant: a value is taken when it is not None
M_Truthy(o) == o.some

\* Python truthiness of an optional value, and "a or b".  A JSON value is
\* written as a number: 0 is the falsy value of its type (0, 0.0, "", {}), any
\* other number a truthy value
Truthy(o) == o.some /\ o.v # 0
PyOr(a, b) == IF Truthy(a) THEN a ELSE b

\* identifiers are written as strings
NoneS == [some |-> FALSE, v |-> ""]
SomeS(s) == [some |-> TRUE, v |-> s]
TruthyS(o) == o.some /\ o.v # ""
PyOrS(a, b) == IF TruthyS(a) THEN a ELSE b

\* displayName: absent, a plain string, or a dict whose text may be missing
NoDisplayName == [kind |-> "none", text |-> NoneV]
DisplayNameStr(x) == [kind |-> "str", text |-> SomeV(x)]
DisplayNameDict(text) == [kind |-> "dict", text |-> text]

\* a list member (types, photos) that may be missing
NoneL == [some |-> FALSE, v |-> <<>>]
SomeL(l) == [some |-> TRUE, v |-> l]

PyMin2(a, b) == IF a <= b THEN a ELSE b
Abs(x) == IF x < 0 THEN -x ELSE x

\* a rating as the provider sends it: absent, a number, or text
NoRating == [t |-> "none", v |-> 0]
NumRating(x) == [t |-> "num", v |-> x]
StrRating(x) == [t |-> "str", v |-> x]

\* a provider place entry with its canonical and legacy members; dict = FALSE
\* is an entry that is no JSON object
RawPlace(id, latitude, lat, longitude, lng, rating) ==
    [dict |-> TRUE, id |-> SomeS(id), place_id |-> NoneS,
     displayName |-> NoDisplayName, name |-> NoneV,
     formattedAddress |-> NoneV, address |-> NoneV,
     userRatingCount |-> NoneV, user_rating_count |-> NoneV,
     priceLevel |-> NoneV, price_level |-> NoneV,
     internationalPhoneNumber |-> NoneV, phone |-> NoneV,
     websiteUri |-> NoneV, website |-> NoneV,
     currentOpeningHours |-> NoneV, opening_hours |-> NoneV,
     types |-> NoneL, photos |-> NoneL,
     latitude |-> latitude, lat |-> lat,
     longitude |-> longitude, lng |-> lng, rating |-> rating]

\* provider hits (all on the meridian of the search centre; coordinates are in
\* microdegrees, so the hits lie within a few metres of each other): canonical
\* coordinates, legacy lat/lng names, no location, a place on the equator, a
\* rating sent as text, and a malformed entry
PlaceSamples ==
    {RawPlace("far", SomeV(5), NoneV, SomeV(29), NoneV, NumRating(5)),
     RawPlace("near", NoneV, SomeV(2), NoneV, SomeV(29), NoRating),
     RawPlace("low", SomeV(3), NoneV, SomeV(29), NoneV, NumRating(3)),
     RawPlace("equator", SomeV(0), NoneV, SomeV(29), NoneV, NumRating(4)),
     RawPlace("nowhere", NoneV, NoneV, NoneV, NoneV, NumRating(3)),
     RawPlace("text", SomeV(4), NoneV, SomeV(29), NoneV, StrRating(4)),
     [RawPlace("bad", NoneV, NoneV, NoneV, NoneV, NoRating) EXCEPT !.dict = FALSE]}

NoCoordinates == [some |-> FALSE, latitude |-> 0, longitude |-> 0]
NoDistance == [some |-> FALSE, km1000 |-> 0, meters |-> 0]

\* _normalize_place_data(place), for a place that is a dict
_normalize_place_data(place) ==
    LET lat == PyOr(place.latitude, place.lat)
        lng == PyOr(place.longitude, place.lng)
        display_name == place.displayName
        name == IF display_name.kind = "dict" THEN display_name.text
                ELSE PyOr(display_name.text, place.name)
    IN [place_id |-> PyOrS(place.id, place.place_id),
        name |-> name,
        address |-> PyOr(place.formattedAddress, place.address),
        coordinates |-> IF Truthy(lat) /\ Truthy(lng)
                        THEN [some |-> TRUE, latitude |-> lat.v, longitude |-> lng.v]
                        ELSE NoCoordinates,
        rating |-> place.rating,
        user_ratings_total |-> PyOr(place.userRatingCount, place.user_rating_count),
        price_level |-> PyOr(place.priceLevel, place.price_level),
        types |-> IF place.types.some THEN place.types.v ELSE <<>>,
        phone |-> PyOr(place.internationalPhoneNumber, place.phone),
        website |-> PyOr(place.websiteUri, place.website),
        opening_hours |-> PyOr(place.currentOpeningHours, place.opening_hours),
        photos |-> IF place.photos.some THEN place.photos.v ELSE <<>>,
        distance_from_center |-> NoDistance]

\* metres per degree of latitude (micrometres per microdegree): r * pi / 180
\* with r = 6371.0088 km
MetersPerDegree == 111195

\* _haversine_km in micrometres, for two points on one meridian (dlmb = 0),
\* where the formula reduces to r * |dphi|; coordinates in microdegrees
_haversine_km(lat1, lon1, lat2, lon2) == MetersPerDegree * Abs(lat2 - lat1)

\* round(n / d): Python rounds to the nearest integer, a tie to the even one
PyRound(n, d) ==
    LET q == n \div d
        r == n % d
    IN IF 2 * r < d THEN q
       ELSE IF 2 * r > d THEN q + 1
       ELSE IF q % 2 = 0 THEN q ELSE q + 1

\* lines 189-192: {"km": round(distance_km, 3), "meters": round(distance_km * 1000)}
\* for a distance in micrometres; km is kept in thousandths of a kilometre
RoundedDistance(um) ==
    [some |-> TRUE, km1000 |-> PyRound(um, 1000000), meters |-> PyRound(um, 1000000)]

\* the environment of a Places call: whether GOOGLE_MAPS_API_KEY is set, what
\* the HTTP exchange gives ("ok": a 200 body with the places, "error": a non-200
\* answer or a failed request, "nondict": a 200 body that is no JSON object)
PlacesEnvs ==
    [api_key : {FALSE}, http : {"ok"}, places : {<<>>}]
    \cup [api_key : {TRUE}, http : {"error", "nondict"}, places : {<<>>}]
    \cup [api_key : {TRUE}, http : {"ok"}, places : SeqsUpTo(PlaceSamples, MaxHits)]

ProviderRaise == [exc |-> "ValueError", kind |-> "none", places |-> <<>>]
ProviderAnswer(env) ==
    [exc |-> "none",
     kind |-> IF env.http = "ok" THEN "places" ELSE env.http,
     places |-> env.places]

\* maps_agent google_places_text_search: argument checks, then the request
google_places_text_search(page_size, min_rating, env) ==
    IF ~env.api_key THEN ProviderRaise
    ELSE IF ~(1 <= page_size /\ page_size <= 20) THEN ProviderRaise
    ELSE IF min_rating.some /\ ~(0 <= min_rating.v /\ min_rating.v <= 5) THEN ProviderRaise
    ELSE ProviderAnswer(env)

\* maps_agent google_places_nearby_search: argument checks, then the request
google_places_nearby_search(radius, max_result_count, env) ==
    IF ~env.api_key THEN ProviderRaise
    ELSE IF ~(0 <= radius /\ radius <= 50000) THEN ProviderRaise
    ELSE IF ~(1 <= max_result_count /\ max_result_count <= 20) THEN ProviderRaise
    ELSE ProviderAnswer(env)

\* maps_agent google_places_place_details
google_places_place_details(env) ==
    IF ~env.api_key THEN ProviderRaise ELSE ProviderAnswer(env)

\* a provider call as the tool made it
Call(fn, size, radius) ==
    [fn |-> fn, size |-> size, radius |-> radius,
     center |-> [some |-> FALSE, latitude |-> [n |-> 0, d |-> 1],
                 longitude |-> [n |-> 0, d |-> 1]]]

\* the numbers x and x / 2
Whole(x) == [n |-> x, d |-> 1]
Half(x) == [n |-> x, d |-> 2]

\* a nearby call with its centre
CallAt(fn, size, radius, latitude, longitude) ==
    [Call(fn, size, radius) EXCEPT
        !.center = [some |-> TRUE, latitude |-> latitude, longitude |-> longitude]]

NoSub ==
    [present |-> FALSE, status |-> "none", error |-> "",
     check_in |-> OtherValue("NoneType"), check_out |-> OtherValue("NoneType")]

\* the value a hotel tool returns; key names the member that carries the list
ToolResult(status, error, key, results, calls) ==
    [raised |-> FALSE, status |-> status, error |-> error, key |-> key,
     results |-> results, total_found |-> Len(results), calls |-> calls,
     details |-> NoSub, prices |-> NoSub]

\* an exception leaving a try body (or the tool)
ToolRaise(calls) ==
    [raised |-> TRUE, status |-> "none", error |-> "exception", key |-> "none",
     results |-> <<>>, total_found |-> 0, calls |-> calls,
     details |-> NoSub, prices |-> NoSub]

\* mutant: every normalized entry is kept
M_WithCoordinates(places) == [i \in DOMAIN places |-> _normalize_place_data(places[i])]

\* the normalized entries of places that have coordinates
RECURSIVE WithCoordinates(_)
WithCoordinates(places) ==
    IF places = <<>> THEN <<>>
    ELSE LET n == _normalize_place_data(Head(places))
         IN IF n.coordinates.some
            THEN <<n>> \o WithCoordinates(Tail(places))
            ELSE WithCoordinates(Tail(places))

\* lines 182-196: normalized entries with coordinates, the distance attached,
\* that pass the rating filter
RECURSIVE NearbyResults(_, _, _, _)
NearbyResults(places, latitude, longitude, min_rating) ==
    IF places = <<>> THEN <<>>
    ELSE LET n == _normalize_place_data(Head(places))
             distance_km == _haversine_km(latitude, longitude,
                                          n.coordinates.latitude, n.coordinates.longitude)
             withDist == [n EXCEPT !.distance_from_center = RoundedDistance(distance_km)]
             rest == NearbyResults(Tail(places), latitude, longitude, min_rating)
         IN IF n.coordinates.some /\ (n.rating.t = "none" \/ n.rating.v >= min_rating)
            THEN <<withDist>> \o rest
            ELSE rest

\* insert n after the entries whose distance is not larger (list.sort is stable)
RECURSIVE InsertByDistance(_, _)
InsertByDistance(n, s) ==
    IF s = <<>> THEN <<n>>
    ELSE IF n.distance_from_center.km1000 < Head(s).distance_from_center.km1000
    THEN <<n>> \o s
    ELSE <<Head(s)>> \o InsertByDistance(n, Tail(s))

\* mutant: the results are left in the provider's order
M_SortByDistance(s) == s

\* results.sort(key=lambda x: x["distance_from_center"]["km"])
RECURSIVE SortByDistance(_)
SortByDistance(s) ==
    IF s = <<>> THEN <<>>
    ELSE InsertByDistance(s[Len(s)], SortByDistance(SubSeq(s, 1, Len(s) - 1)))

\* mutant: the coordinate pair is looked at before the location
M_SearchMode(a) ==
    IF a.latitude.some /\ a.longitude.some THEN "nearby"
    ELSE IF a.location.some THEN "location"
    ELSE "none"

\* lines 128, 165, 209: the branch hotels_search takes
SearchMode(a) ==
    IF a.location.some THEN "location"
    ELSE IF a.latitude.some /\ a.longitude.some THEN "nearby"
    ELSE "none"

\* lines 114-210, the body of the try in hotels_search
HotelsSearchTry(a, env) ==
    LET min_rating == IF a.min_rating.some THEN a.min_rating.v ELSE 0
        max_results == IF a.max_results.some THEN a.max_results.v ELSE 20
        radius == IF a.radius.some THEN a.radius.v ELSE 2000
        size == PyMin2(max_results, 20)
        text == google_places_text_search(
                    size, IF min_rating > 0 THEN SomeV(min_rating) ELSE NoneV, env)
        near == google_places_nearby_search(radius, size, env)
        textCall == <<Call("text_search", size, 0)>>
        nearCall == <<CallAt("nearby_search", size, radius,
                             Whole(a.latitude.v), Whole(a.longitude.v))>>
    IN IF SearchMode(a) = "location"
       THEN IF text.exc # "none" THEN ToolRaise(textCall)
            \* '"error" in response' or response.get on a value that is no dict
            ELSE IF text.kind = "nondict" THEN ToolRaise(textCall)
            ELSE IF text.kind = "error"
            THEN ToolResult("error", "Search failed", "results", <<>>, textCall)
            \* place.get on an entry that is no dict
            ELSE IF \E i \in DOMAIN text.places : ~text.places[i].dict
            THEN ToolRaise(textCall)
            ELSE ToolResult("success", "", "results", WithCoordinates(text.places), textCall)
       ELSE IF SearchMode(a) = "nearby"
       THEN IF near.exc # "none" THEN ToolRaise(nearCall)
            ELSE IF near.kind = "nondict" THEN ToolRaise(nearCall)
            ELSE IF near.kind = "error"
            THEN ToolResult("error", "Nearby search failed", "results", <<>>, nearCall)
            ELSE IF \E i \in DOMAIN near.places : ~near.places[i].dict
            THEN ToolRaise(nearCall)
            \* 'rating >= min_rating' with a rating that is text
            ELSE IF \E i \in DOMAIN near.places :
                        /\ _normalize_place_data(near.places[i]).coordinates.some
                        /\ near.places[i].rating.t = "str"
            THEN ToolRaise(nearCall)
            ELSE ToolResult("success", "", "results",
                            SortByDistance(NearbyResults(near.places, a.latitude.v,
                                                         a.longitude.v, min_rating)),
                            nearCall)
       ELSE ToolResult("error", "Either location or (latitude & longitude) must be provided",
                       "results", <<>>, <<>>)

\* mutant: no try/except around the body
M_hotels_search(a, env) == HotelsSearchTry(a, env)

\* hotels_search: try ... except Exception
hotels_search(a, env) ==
    LET t == HotelsSearchTry(a, env)
    IN IF t.raised
       THEN ToolResult("error", "Search operation failed", "results", <<>>, t.calls)
       ELSE t

\* a date argument: None, "", text that is no yyyy-mm-dd date, or digit groups
\* joined by a separator
NoDateArg == OtherValue("NoneType")
EmptyString == DateStr("empty", NoToks)
Text == DateStr("none", NoToks)

\* Python truthiness of a string argument
TruthyStr(s) == s.t = "str" /\ s.sep # "empty"

\* the format "%Y-%m-%d"
YMD == Fmt("-", <<"Y", "m", "d">>)

\* strftime("%Y-%m-%d")
strftimeYMD(date) == DateStr("-", <<Tok(date.y, 4), Tok(date.m, 2), Tok(date.d, 2)>>)

\* a datetime with the time of day left out
Date(d, m, y) == [ok |-> TRUE, d |-> d, m |-> m, y |-> y]

\* datetime.MAXYEAR
MAXYEAR == 9999

\* mutant: a < b
M_DateLe(a, b) ==
    \/ a.y < b.y
    \/ a.y = b.y /\ a.m < b.m
    \/ a.y = b.y /\ a.m = b.m /\ a.d < b.d

\* a <= b for two datetimes, the first at midnight (a parsed date), the second
\* at any time of its day
DateLe(a, b) ==
    \/ a.y < b.y
    \/ a.y = b.y /\ a.m < b.m
    \/ a.y = b.y /\ a.m = b.m /\ a.d <= b.d

\* date + timedelta(days=n); ok = no OverflowError
RECURSIVE AddDays(_, _)
AddDays(date, n) ==
    IF n = 0 \/ ~date.ok THEN date
    ELSE IF date.d < DaysIn(date.m, date.y) THEN AddDays(Date(date.d + 1, date.m, date.y), n - 1)
    ELSE IF date.m < 12 THEN AddDays(Date(1, date.m + 1, date.y), n - 1)
    ELSE IF date.y < MAXYEAR THEN AddDays(Date(1, 1, date.y + 1), n - 1)
    ELSE NoDate

\* what _validate_dates gives: the two strings, or an exception
Stay(check_in_date, check_out_date) ==
    IF check_in_date.ok /\ check_out_date.ok
    THEN [raised |-> FALSE, check_in |-> strftimeYMD(check_in_date),
          check_out |-> strftimeYMD(check_out_date)]
    ELSE [raised |-> TRUE, check_in |-> NoDateArg, check_out |-> NoDateArg]

\* lines 33-35: the except branch
DefaultStay(now) == Stay(AddDays(now, 7), AddDays(AddDays(now, 7), 5))

\* mutant: a check_out that is not after check_in is sent as it is
M_validate_dates(check_in, check_out, now) ==
    LET check_in_date == strptime(check_in, YMD)
        check_out_date == strptime(check_out, YMD)
    IN IF ~check_in_date.ok \/ ~check_out_date.ok THEN DefaultStay(now)
       ELSE IF DateLe(check_in_date, now) THEN DefaultStay(now)
       ELSE Stay(check_in_date, check_out_date)

\* _validate_dates(check_in, check_out), with datetime.now() as now; strptime
\* raises for None (TypeError) as for a string of another shape (ValueError)
_validate_dates(check_in, check_out, now) ==
    LET check_in_date == strptime(check_in, YMD)
        check_out_date == strptime(check_out, YMD)
        try ==
            IF ~check_in_date.ok \/ ~check_out_date.ok THEN Stay(NoDate, NoDate)
            ELSE IF DateLe(check_in_date, now)
            THEN Stay(AddDays(now, 7), AddDays(AddDays(now, 7), 5))
            ELSE IF DateLe(check_out_date, check_in_date)
            THEN Stay(check_in_date, AddDays(check_in_date, 1))
            ELSE Stay(check_in_date, check_out_date)
    IN IF try.raised THEN DefaultStay(now) ELSE try

\* what datetime.now() reads: a day before the end of a February and one before
\* the end of a year
Clocks == {Date(25, 2, 2024), Date(28, 12, 2025)}

\* the date arguments of the tool
DateArgs ==
    {NoDateArg, EmptyString, Text}
    \cup {DateStr("-", <<Tok(2024, 4), Tok(3, 2), Tok(1, 2)>>),
          DateStr("-", <<Tok(2026, 4), Tok(1, 1), Tok(5, 1)>>),
          DateStr("-", <<Tok(2026, 4), Tok(1, 2), Tok(9, 2)>>),
          DateStr("-", <<Tok(9999, 4), Tok(12, 2), Tok(31, 2)>>)}

\* the environment of the pricing call: whether SERPAPI_KEY is set and what the
\* request gives ("ok": a body with properties, "error": a body with an error
\* member, "raise": a failed request or raise_for_status, "nondict": a body that
\* is no JSON object)
PriceEnvs == [serp_key : BOOLEAN, http : {"ok", "error", "raise", "nondict"}, now : Clocks]

Sub(status, error) ==
    [present |-> TRUE, status |-> status, error |-> error,
     check_in |-> NoDateArg, check_out |-> NoDateArg]

\* lines 236-256: the details sub-operation
DetailsSub(a, env) ==
    LET r == google_places_place_details(env)
    IN IF ~(a.place_id = "id") THEN NoSub
       \* except Exception inside the details block
       ELSE IF r.exc # "none" THEN Sub("error", "exception")
       ELSE IF r.kind = "error" THEN Sub("error", "Details fetch failed")
       ELSE IF r.kind = "nondict" THEN Sub("error", "exception")
       ELSE Sub("success", "")

\* lines 257-284: the pricing sub-operation
PricesSub(a, penv) ==
    LET dates == _validate_dates(a.check_in, a.check_out, penv.now)
        sent(status, error) ==
            [Sub(status, error) EXCEPT !.check_in = dates.check_in,
                                       !.check_out = dates.check_out]
    IN IF ~(TruthyStr(a.check_in) /\ TruthyStr(a.check_out)) THEN NoSub
       ELSE IF ~penv.serp_key THEN Sub("error", "SERPAPI_KEY missing in .env")
       ELSE IF penv.http = "ok" THEN sent("success", "")
       ELSE IF penv.http = "error" THEN sent("error", "provider error")
       ELSE sent("error", "exception")

\* mutant: the overall status looks at the details result only
M_OverallStatus(details_ret, prices_ret) ==
    IF ~details_ret.present \/ details_ret.status = "success" THEN "success" ELSE "partial"

\* line 285
OverallStatus(details_ret, prices_ret) ==
    IF /\ (~details_ret.present \/ details_ret.status = "success")
       /\ (~prices_ret.present \/ prices_ret.status = "success")
    THEN "success"
    ELSE "partial"

\* hotel_details_and_prices
hotel_details_and_prices(a, env, penv) ==
    LET details_ret == DetailsSub(a, env)
        prices_ret == PricesSub(a, penv)
    IN \* line 258 is outside every try
       IF /\ TruthyStr(a.check_in) /\ TruthyStr(a.check_out)
          /\ _validate_dates(a.check_in, a.check_out, penv.now).raised
       THEN ToolRaise(<<>>)
       ELSE [ToolResult(OverallStatus(details_ret, prices_ret), "", "none", <<>>, <<>>)
                EXCEPT !.details = details_ret, !.prices = prices_ret]

\* origin and destination of route mode: None (or a dict without the
\* coordinates), or the two points
NoRoute ==
    [some |-> FALSE, origin |-> [latitude |-> 0, longitude |-> 0],
     destination |-> [latitude |-> 0, longitude |-> 0]]
Route(lat1, lng1, lat2, lng2) ==
    [some |-> TRUE, origin |-> [latitude |-> lat1, longitude |-> lng1],
     destination |-> [latitude |-> lat2, longitude |-> lng2]]

\* mutant: route mode searches around the origin
M_RouteCall(route) ==
    CallAt("nearby_search", 20, 5000, Whole(route.origin.latitude),
           Whole(route.origin.longitude))

\* lines 320-328: the nearby call of route mode
RouteCall(route) ==
    CallAt("nearby_search", 20, 5000,
           Half(route.origin.latitude + route.destination.latitude),
           Half(route.origin.longitude + route.destination.longitude))

\* hotels_analyze
hotels_analyze(a, env) ==
    LET text == google_places_text_search(1, NoneV, env)
        near == google_places_nearby_search(5000, 20, env)
        textCall == <<Call("text_search", 1, 0)>>
        nearCall == <<RouteCall(a.route)>>
        base == hotels_search([location |-> a.location, latitude |-> NoneV,
                               longitude |-> NoneV, min_rating |-> NoneV,
                               max_results |-> SomeV(5), radius |-> NoneV], env)
    IN IF a.mode = "location"
       THEN IF text.exc # "none" \/ text.kind = "nondict"
            THEN ToolResult("error", "exception", "results", <<>>, textCall)
            ELSE IF text.kind = "error" \/ text.places = <<>>
            THEN ToolResult("error", "Hotel not found", "results", <<>>, textCall)
            ELSE IF ~text.places[1].dict
            THEN ToolResult("error", "exception", "results", <<>>, textCall)
            ELSE ToolResult("success", "", "hotel",
                            <<_normalize_place_data(text.places[1])>>, textCall)
       ELSE IF a.mode = "route"
       \* origin["latitude"] with origin or destination None
       THEN IF ~a.route.some THEN ToolResult("error", "exception", "results", <<>>, <<>>)
            ELSE IF near.exc # "none" \/ near.kind = "nondict"
            THEN ToolResult("error", "exception", "results", <<>>, nearCall)
            ELSE IF near.kind = "error"
            THEN ToolResult("error", "provider error", "results", <<>>, nearCall)
            ELSE IF \E i \in DOMAIN near.places : ~near.places[i].dict
            THEN ToolResult("error", "exception", "results", <<>>, nearCall)
            ELSE ToolResult("success", "", "results",
                            [i \in DOMAIN near.places |->
                                _normalize_place_data(near.places[i])], nearCall)
       ELSE IF a.mode = "comprehensive"
       THEN ToolResult("success", "", "comprehensive_results", base.results, base.calls)
       ELSE ToolResult("error", "Invalid mode", "results", <<>>, <<>>)

(***************************************************************************)
(* Invocations of the hotel tools (SpecHotels).                            *)
(***************************************************************************)
SearchArgs ==
    [location : {NoneV, SomeV(1)},
     latitude : {NoneV, SomeV(0)},
     longitude : {NoneV, SomeV(29)},
     min_rating : {NoneV, SomeV(4), SomeV(6)},
     max_results : {NoneV, SomeV(0), SomeV(1), SomeV(25)},
     radius : {NoneV, SomeV(60000)}]

DetailsArgs == [place_id : {"none", "empty", "id"}, check_in : DateArgs, check_out : DateArgs]

AnalyzeArgs ==
    [mode : {"location", "route", "comprehensive", "other"},
     route : {NoRoute, Route(41, 29, 39, 33), Route(1, 2, 2, -3)},
     location : {NoneV, SomeV(1)}]

NoPlacesEnv == [api_key |-> FALSE, http |-> "ok", places |-> <<>>]
NoPriceEnv == [serp_key |-> FALSE, http |-> "ok", now |-> Date(25, 2, 2024)]

NoSearchArgs ==
    [location |-> NoneV, latitude |-> NoneV, longitude |-> NoneV, min_rating |-> NoneV,
     max_results |-> NoneV, radius |-> NoneV]
NoDetailsArgs == [place_id |-> "none", check_in |-> NoDateArg, check_out |-> NoDateArg]
NoAnalyzeArgs == [mode |-> "other", route |-> NoRoute, location |-> NoneV]

DetailsEnvs == [api_key : BOOLEAN, http : {"ok", "error", "nondict"}, places : {<<>>}]

\* an invocation: the tool, its arguments and the behaviour of the providers
Invocation(tool, env, penv) ==
    [tool |-> tool, env |-> env, penv |-> penv, search |-> NoSearchArgs,
     details |-> NoDetailsArgs, analyze |-> NoAnalyzeArgs]

NoOp == Invocation("none", NoPlacesEnv, NoPriceEnv)
NoRes == ToolResult("none", "", "none", <<>>, <<>>)

Search(a, env) ==
    /\ op.tool = "none"
    /\ op' = [Invocation("hotels_search", env, NoPriceEnv) EXCEPT !.search = a]
    /\ res' = hotels_search(a, env)
    /\ UNCHANGED varsModel
    /\ UNCHANGED varsSave
    /\ UNCHANGED varsConcurrent
    /\ UNCHANGED varsEnv

DetailsAndPrices(a, env, penv) ==
    /\ op.tool = "none"
    /\ op' = [Invocation("hotel_details_and_prices", env, penv) EXCEPT !.details = a]
    /\ res' = hotel_details_and_prices(a, env, penv)
    /\ UNCHANGED varsModel
    /\ UNCHANGED varsSave
    /\ UNCHANGED varsConcurrent
    /\ UNCHANGED varsEnv

Analyze(a, env) ==
    /\ op.tool = "none"
    /\ op' = [Invocation("hotels_analyze", env, NoPriceEnv) EXCEPT !.analyze = a]
    /\ res' = hotels_analyze(a, env)
    /\ UNCHANGED varsModel
    /\ UNCHANGED varsSave
    /\ UNCHANGED varsConcurrent
    /\ UNCHANGED varsEnv

(***************************************************************************)
(* outputSchema.py: _coerce_time and Place._time_ok.  A time is an int or  *)
(* a string; a string is digits (shape "digits": ASCII digits, p its       *)
(* number; "superscript": characters such as the superscript two, for      *)
(* which str.isdigit() holds and int() raises), parts joined by colons     *)
(* ("colon", p the parts, a part that is no number has w = 0) or other     *)
(* text.                                                                   *)
(***************************************************************************)
IntTime(v) == [t |-> "int", shape |-> "none", p |-> <<Tok(v, 0)>>]
StrTime(shape, p) == [t |-> "str", shape |-> shape, p |-> p]

\* str.isdigit()
isdigit(s) == s.shape \in {"digits", "superscript"}

\* the clock directives of strptime: %H 0..23, %M 0..59, %S 0..61, one or two digits
MatchesClock(tok, dir) ==
    /\ tok.w \in {1, 2}
    /\ (tok.w = 1 => tok.v <= 9)
    /\ tok.v >= 0
    /\ tok.v <= (IF dir = "H" THEN 23 ELSE IF dir = "M" THEN 59 ELSE 61)

\* datetime.strptime(v, "%H:%M") or (v, "%H:%M:%S") returns (no ValueError)
ClockParses(s) ==
    LET dirs == <<"H", "M", "S">>
    IN \A i \in DOMAIN s.p : MatchesClock(s.p[i], dirs[i])

RaisedValueError == [raised |-> TRUE, value |-> IntTime(0)]

\* mutant: a negative int is returned like any other int
M_coerce_time(v) ==
    IF v.t = "str" /\ isdigit(v)
    THEN (IF v.shape = "digits" THEN Returned(IntTime(v.p[1].v)) ELSE RaisedValueError)
    ELSE Returned(v)

\* _coerce_time(v)
_coerce_time(v) ==
    IF v.t = "int"
    THEN (IF v.p[1].v < 0 THEN RaisedValueError ELSE Returned(v))
    ELSE IF v.t = "str"
    THEN IF isdigit(v)
         \* int(v)
         THEN (IF v.shape = "digits" THEN Returned(IntTime(v.p[1].v)) ELSE RaisedValueError)
         ELSE IF v.shape = "colon" /\ Len(v.p) \in {2, 3}
         THEN (IF ClockParses(v) THEN Returned(v) ELSE Returned(v))
         ELSE Returned(v)
    ELSE Returned(v)

\* Place._time_ok: the ValueError becomes the ValidationError of the field
_time_ok(v) == _coerce_time(v)

\* parts of the colon strings tried: hours, minutes, a number no clock shows,
\* and a part that is no number
ClockToks == {Tok(7, 1), Tok(7, 2), Tok(23, 2), Tok(24, 2), Tok(59, 2), Tok(75, 2), Tok(0, 0)}

TimeInputs ==
    {IntTime(v) : v \in {-5, -1, 0, 1, 1694949930}}
    \cup {StrTime("digits", <<Tok(v, w)>>) : v \in {0, 7, 1694949930}, w \in {1, 3}}
    \cup {StrTime("superscript", <<Tok(2, 1)>>)}
    \cup {StrTime("colon", p) : p \in UNION {[1..k -> ClockToks] : k \in 2..3}}
    \cup {StrTime("colon", <<Tok(1, 1), Tok(2, 1), Tok(3, 1), Tok(4, 1)>>)}
    \cup {StrTime("text", <<Tok(0, 0)>>), StrTime("text", <<Tok(-5, 2)>>)}

\* validation of Place.time
CoerceTime(v) ==
    /\ op.tool = "none"
    /\ op' = [tool |-> "_time_ok", arg |-> v]
    /\ res' = _time_ok(v)
    /\ UNCHANGED varsModel
    /\ UNCHANGED varsSave
    /\ UNCHANGED varsConcurrent
    /\ UNCHANGED varsEnv

(***************************************************************************)
(* Calls of _normalize_place_data on place entries whose members are       *)
(* missing, falsy or set, one pair of members at a time.                   *)
(***************************************************************************)
BasePlace == RawPlace("x", SomeV(41), NoneV, SomeV(29), NoneV, NoRating)

\* a canonical and a legacy member: missing, the falsy value, a truthy value
CanonicalValues == {NoneV, SomeV(0), SomeV(1)}
LegacyValues == {NoneV, SomeV(0), SomeV(2)}

NormalizeInputs ==
    {[BasePlace EXCEPT !.id = a, !.place_id = b] :
        a \in {NoneS, SomeS(""), SomeS("A")}, b \in {NoneS, SomeS(""), SomeS("B")}}
    \cup {[BasePlace EXCEPT !.displayName = a, !.name = b] :
            a \in {NoDisplayName, DisplayNameStr(0), DisplayNameStr(1), DisplayNameDict(NoneV),
                   DisplayNameDict(SomeV(0)), DisplayNameDict(SomeV(1))},
            b \in LegacyValues}
    \cup {[BasePlace EXCEPT !.formattedAddress = a, !.address = b] :
            a \in CanonicalValues, b \in LegacyValues}
    \cup {[BasePlace EXCEPT !.userRatingCount = a, !.user_rating_count = b] :
            a \in CanonicalValues, b \in LegacyValues}
    \cup {[BasePlace EXCEPT !.priceLevel = a, !.price_level = b] :
            a \in CanonicalValues, b \in LegacyValues}
    \cup {[BasePlace EXCEPT !.internationalPhoneNumber = a, !.phone = b] :
            a \in CanonicalValues, b \in LegacyValues}
    \cup {[BasePlace EXCEPT !.websiteUri = a, !.website = b] :
            a \in CanonicalValues, b \in LegacyValues}
    \cup {[BasePlace EXCEPT !.currentOpeningHours = a, !.opening_hours = b] :
            a \in CanonicalValues, b \in LegacyValues}
    \cup {[BasePlace EXCEPT !.types = a, !.photos = b] :
            a \in {NoneL, SomeL(<<>>), SomeL(<<1>>)}, b \in {NoneL, SomeL(<<>>), SomeL(<<1>>)}}
    \cup {[BasePlace EXCEPT !.latitude = a, !.lat = b, !.longitude = c, !.lng = d] :
            a \in {NoneV, SomeV(0), SomeV(41)}, b \in {NoneV, SomeV(0), SomeV(42)},
            c \in {NoneV, SomeV(0), SomeV(29)}, d \in {NoneV, SomeV(0), SomeV(30)}}

\* a call of _normalize_place_data
Normalize(place) ==
    /\ op.tool = "none"
    /\ op' = [tool |-> "_normalize_place_data", arg |-> place]
    /\ res' = Returned(_normalize_place_data(place))
    /\ UNCHANGED varsModel
    /\ UNCHANGED varsSave
    /\ UNCHANGED varsConcurrent
    /\ UNCHANGED varsEnv

(***************************************************************************)
(* inputSchema.py: Preferences and Dislikes, the fields events and         *)
(* cuisines.  Keyword arguments are given or missing; a given value is     *)
(* None or a list.  extra="forbid": a keyword that no field took is an     *)
(* error, also the second alias when both are given.                       *)
(***************************************************************************)
Missing == [given |-> FALSE, some |-> FALSE, v |-> <<>>]
Given(o) == [given |-> TRUE, some |-> o.some, v |-> o.v]

\* mutant: only the first alias is accepted
M_CuisinesAliases == <<"cousines">>

\* validation_alias=AliasChoices("cousines", "cuisines")
CuisinesAliases == <<"cousines", "cuisines">>

\* serialization_alias="cousines"
CuisinesSerializationAlias == "cousines"

\* the first alias of the choices under which a keyword is given, or "none"
RECURSIVE LookupAlias(_, _, _)
LookupAlias(kwargs, choices, k) ==
    IF k > Len(choices) THEN "none"
    ELSE IF kwargs[choices[k]].given THEN choices[k]
    ELSE LookupAlias(kwargs, choices, k + 1)

\* the keywords that no field takes
ExtraKeywords(kwargs) ==
    {key \in DOMAIN kwargs : kwargs[key].given}
        \ {"events", LookupAlias(kwargs, CuisinesAliases, 1)}

Optional(kw) == [some |-> kw.some, v |-> kw.v]

\* Preferences(**kwargs) and Dislikes(**kwargs): ok = no ValidationError
Preferences(kwargs) ==
    LET alias == LookupAlias(kwargs, CuisinesAliases, 1)
    IN IF ExtraKeywords(kwargs) # {}
       THEN [ok |-> FALSE, object |-> [events |-> NoneL, cuisines |-> NoneL]]
       ELSE [ok |-> TRUE,
             object |-> [events |-> Optional(kwargs.events),
                         cuisines |-> IF alias = "none" THEN NoneL
                                      ELSE Optional(kwargs[alias])]]

\* model_dump(by_alias=...): the members by their output names
model_dump(object, by_alias) ==
    LET name == IF by_alias THEN CuisinesSerializationAlias ELSE "cuisines"
    IN [key \in {"events", name} |->
           IF key = "events" THEN object.events ELSE object.cuisines]

CuisineLists == {NoneL, SomeL(<<"Turkish">>), SomeL(<<"Italian", "Greek">>)}

PreferencesKwargs ==
    [events : {Missing, Given(SomeL(<<"concert">>))},
     cousines : {Missing} \cup {Given(l) : l \in CuisineLists},
     cuisines : {Missing} \cup {Given(l) : l \in CuisineLists},
     cuisine : {Missing, Given(SomeL(<<"Turkish">>))}]

\* construction of a Preferences or a Dislikes, then its serialization
ConstructPreferences(cls, kwargs, by_alias) ==
    /\ built.cls = "none"
    /\ built' = [cls |-> cls, ok |-> Preferences(kwargs).ok, places |-> <<>>,
                 day_plans |-> <<>>, fieldsOk |-> Preferences(kwargs).ok,
                 kwargs |-> kwargs, by_alias |-> by_alias,
                 object |-> Preferences(kwargs).object,
                 dumped |-> model_dump(Preferences(kwargs).object, by_alias)]
    /\ UNCHANGED <<resp, dr, outcome>>
    /\ UNCHANGED varsSave
    /\ UNCHANGED varsConcurrent
    /\ UNCHANGED varsEnv
    /\ UNCHANGED varsHotels

(***************************************************************************)
(* Specifications of the model part and of the persistence part.           *)
(***************************************************************************)
DefaultResponse ==
    [hotel_information |-> [lat |-> NumV(0), lon |-> NumV(0)], day_plans |-> <<>>]
DefaultDateRange == [start_date |-> 0, end_date |-> SomeDate(1), number_of_days |-> 1]

IdleModel ==
    /\ built = NoBuild
    /\ resp = DefaultResponse
    /\ dr = DefaultDateRange
    /\ outcome = "none"

IdleSave ==
    /\ pc = "idle"
    /\ input = NoInput
    /\ result = NoResult
    /\ files = <<>>
    /\ files0 = <<>>

IdleHotels ==
    /\ op = NoOp
    /\ res = NoRes

IdleConcurrent == procs = <<>>

IdleEnv ==
    /\ _ENV_LOADED = FALSE
    /\ environ = <<>>
    /\ dotenv = <<>>
    /\ loads = 0
    /\ got = <<>>

\* construction of models from raw input
InitConstruct == IdleModel /\ IdleSave /\ IdleHotels /\ IdleConcurrent /\ IdleEnv

NextConstruct ==
    \/ built.cls = "none" /\ \E d \in DayPlanInputs : ConstructDayPlan(d)
    \/ built.cls = "none" /\ \E r \in ResponseInputs : ConstructItineraryResponse(r)
    \/ built.cls = "none" /\ \E d \in DateRangeInputs : ConstructDateRange(d)
    \/ built.cls = "none" /\ \E p \in [order : 0..1, lat : LatInputs, lon : LonInputs] :
          ConstructPlace(p)
    \/ built.cls = "none" /\ \E cls \in {"Preferences", "Dislikes"},
                                 kwargs \in PreferencesKwargs, by_alias \in BOOLEAN :
          ConstructPreferences(cls, kwargs, by_alias)

SpecConstruct == InitConstruct /\ [][NextConstruct]_vars

\* live models: the state after a successful construction, then assignments
Live(cls) == [NoBuild EXCEPT !.cls = cls, !.ok = TRUE, !.fieldsOk = TRUE]

InitAssign ==
    /\ \/ /\ built = Live("ItineraryResponse")
          /\ resp \in {r \in LiveResponseInputs : ItineraryResponseOk(r)}
          /\ dr = DefaultDateRange
       \/ /\ built = Live("DateRange")
          /\ resp = DefaultResponse
          /\ dr \in {_set_or_check_end(d).value : d \in {x \in DateRangeInputs : DateRangeOk(x)}}
    /\ outcome = "none"
    /\ IdleSave
    /\ IdleHotels
    /\ IdleConcurrent
    /\ IdleEnv

NextAssign ==
    \/ \E d \in 1..MaxDays, i \in 1..MaxLivePlaces, v \in 0..(MaxLivePlaces + 1) :
          AssignPlaceOrder(d, i, v)
    \/ \E d \in 1..MaxDays, v \in 0..MaxDayOrder, keep \in BOOLEAN :
          AssignDayOrder(d, v, keep)
    \/ \E d \in 1..MaxDays, ps \in SeqsUpTo(LivePlaceInputs, MaxLivePlaces),
          keep \in BOOLEAN : AssignDayPlaces(d, ps, keep)
    \/ \E ds \in DayPlansAssignInputs, keep \in BOOLEAN : AssignDayPlans(ds, keep)
    \/ \E v \in LatInputs : AssignHotelLat(v)
    \/ \E v \in 0..MaxDate, keep \in BOOLEAN : AssignStartDate(v, keep)
    \/ \E v \in {NoneDate} \cup {SomeDate(x) : x \in 0..(MaxDate + MaxNumDays)},
          keep \in BOOLEAN : AssignEndDate(v, keep)
    \/ \E v \in 0..MaxNumDays, keep \in BOOLEAN : AssignNumberOfDays(v, keep)

SpecAssign == InitAssign /\ [][NextAssign]_vars

\* one call of validate_and_save_itinerary, on a fresh file system or on one that
\* holds the files of an earlier run
InitSave ==
    /\ IdleModel
    /\ pc = "idle"
    /\ input = NoInput
    /\ result = NoResult
    /\ files \in {[p \in Paths |-> Absent], [p \in Paths |-> OldFile]}
    /\ files0 = files
    /\ IdleHotels
    /\ IdleConcurrent
    /\ IdleEnv

NextSave == pc = "idle" /\ \E doc \in JsonInputs, fail \in IOFailures : SaveCall(doc, fail)

SpecSave == InitSave /\ [][NextSave]_vars

(***************************************************************************)
(* Claims about the response models.                                       *)
(***************************************************************************)
\* the orders of a list of places or days are exactly 1..n, n the length of the list
OrdersExactly(items) == {items[i].order : i \in DOMAIN items} = 1..Len(items)

\* C1: constructing a DayPlan (its other fields being valid) succeeds if and only
\* if the Place.order values are exactly {1..n}, in whatever position the places
\* appear; a gap or a duplicate fails; an empty places list is accepted.
C1_DayPlanOrders ==
    built.cls = "DayPlan" =>
        /\ built.ok <=> (built.fieldsOk /\ OrdersExactly(built.places))
        /\ (built.places = <<>> /\ built.fieldsOk) => built.ok

\* a DayPlan was accepted whose places are not listed in visiting order
C1_Witness ==
    /\ built.cls = "DayPlan"
    /\ built.ok
    /\ Len(built.places) >= 2
    /\ built.places[1].order > built.places[2].order

\* C2: constructing an ItineraryResponse succeeds only if the DayPlan.order
\* values are exactly {1..n}, independent of list position; a gap, a duplicate or
\* a sequence not starting at 1 fails validation.
C2_DayOrders ==
    (built.cls = "ItineraryResponse" /\ built.ok) => OrdersExactly(built.day_plans)

\* an ItineraryResponse was accepted whose first listed day is day 2
C2_Witness ==
    /\ built.cls = "ItineraryResponse"
    /\ built.ok
    /\ Len(built.day_plans) >= 2
    /\ built.day_plans[1].order = 2

\* all invariants of a live ItineraryResponse
ResponseInvariants(r) ==
    /\ r.hotel_information.lat.v >= -90 /\ r.hotel_information.lat.v <= 90
    /\ r.hotel_information.lon.v >= -180 /\ r.hotel_information.lon.v <= 180
    /\ OrdersExactly(r.day_plans)
    /\ \A d \in DOMAIN r.day_plans :
          /\ OrdersExactly(r.day_plans[d].places)
          /\ \A i \in DOMAIN r.day_plans[d].places :
                /\ r.day_plans[d].places[i].lat.v >= -90
                /\ r.day_plans[d].places[i].lat.v <= 90
                /\ r.day_plans[d].places[i].lon.v >= -180
                /\ r.day_plans[d].places[i].lon.v <= 180

\* C3: in every state reachable through attribute assignments, accepted or
\* rejected, including assignments to the order of a nested Place or DayPlan, the
\* whole model satisfies all of its invariants (orders {1..n} within a day and
\* within a response, lat/lon ranges, end_date >= start_date).
C3_AlwaysValid ==
    /\ built.cls = "ItineraryResponse" => ResponseInvariants(resp)
    /\ built.cls = "DateRange" => (dr.end_date.some /\ dr.end_date.v >= dr.start_date)

(***************************************************************************)
(* Claims about validate_and_save_itinerary.                               *)
(***************************************************************************)
\* a written document that ItineraryResponse(**document) would accept:
\* hotel_information a dict with its required name and coordinates in range, day
\* orders exactly 1..n, place orders exactly 1..n in every day
ItineraryDocValid(c) ==
    /\ c.hotel.dict
    /\ c.hotel.name = "Ritz"
    /\ c.hotel.lat.v >= -90 /\ c.hotel.lat.v <= 90
    /\ c.hotel.lon.v >= -180 /\ c.hotel.lon.v <= 180
    /\ OrdersExactly(c.days)
    /\ \A d \in DOMAIN c.days : OrdersExactly(c.days[d].places)

\* C4: every document for which validate_and_save_itinerary writes a file
\* satisfies the ItineraryResponse invariants; a document violating them is never
\* written.
C4_WrittenIsValid ==
    pc = "done" =>
        \A p \in Paths : files[p].state = "written" => ItineraryDocValid(files[p])

\* the parsed document lacks a required top-level key
LacksRequiredKey(doc) ==
    \/ doc.kind # "object"
    \/ "hotel_information" \notin Range(doc.keys)
    \/ "day_plans" \notin Range(doc.keys)

\* C5: when the input is not parseable JSON or lacks hotel_information or
\* day_plans, the call returns a structured error (status "error", a message,
\* file_path "none"), writes no file, and no exception escapes.
C5_StructuredError ==
    (pc = "done" /\ LacksRequiredKey(input)) =>
        /\ ~result.raised
        /\ result.status = "error"
        /\ result.message # ""
        /\ result.file_path = "none"
        /\ files = files0

\* a document with hotel_information and without day_plans was submitted
C5_Witness ==
    /\ pc = "done"
    /\ input.kind = "object"
    /\ "hotel_information" \in Range(input.keys)
    /\ "day_plans" \notin Range(input.keys)
    /\ input.hotel.dict
    /\ result.status = "error"

\* C6: whenever the result is an error, neither the archival copy nor the
\* "latest" copy has been written or altered.
C6_NoPartialState ==
    (pc = "done" /\ result.status = "error") => files = files0

\* position of the first occurrence of k in s
FirstIndex(s, k) == CHOOSE i \in DOMAIN s : s[i] = k /\ \A j \in 1..(i - 1) : s[j] # k

\* the file content c is the whole document doc, member names in the order in
\* which the text of doc first mentions them
HoldsDocument(c, doc) ==
    /\ c.state = "written"
    /\ c.hotel = doc.hotel
    /\ c.days = doc.days
    /\ Range(c.keys) = Range(doc.keys)
    /\ Len(c.keys) = Cardinality(Range(doc.keys))
    /\ \A i, j \in DOMAIN c.keys :
          i < j => FirstIndex(doc.keys, c.keys[i]) < FirstIndex(doc.keys, c.keys[j])

\* C7: status "success" is returned only after the same whole document has been
\* written to both the archival copy and the "latest" copy; both files then hold
\* the input document with its key order preserved.
C7_BothWritten ==
    (pc = "done" /\ result.status = "success") =>
        /\ HoldsDocument(files[ArchivePath(input.hotel)], input)
        /\ HoldsDocument(files[FrontendPath], input)

\* a document whose members are not in alphabetical order was saved over old files
C7_Witness ==
    /\ pc = "done"
    /\ result.status = "success"
    /\ Len(input.keys) >= 3
    /\ input.keys[1] = "notes"
    /\ files0[FrontendPath] = OldFile

\* calls of the field validators and of the normalizer
InitValidators == IdleModel /\ IdleSave /\ IdleHotels /\ IdleConcurrent /\ IdleEnv

NextValidators ==
    \/ op.tool = "none" /\ \E v \in DateLikeInputs, pads \in BOOLEAN : CoerceDateLike(v, pads)
    \/ op.tool = "none" /\ \E v \in FieldDateInputs, pads \in BOOLEAN :
          ValidateDayPlanDate(v, pads)
    \/ op.tool = "none" /\ \E v \in FieldDateInputs \cup {OtherValue("NoneType")},
                               pads \in BOOLEAN :
          ValidateHotelDate(v, pads)
    \/ op.tool = "none" /\ \E v \in TimeInputs : CoerceTime(v)
    \/ op.tool = "none" /\ \E place \in NormalizeInputs : Normalize(place)

SpecValidators == InitValidators /\ [][NextValidators]_vars

\* one invocation of a hotel tool
InitHotels == IdleModel /\ IdleSave /\ IdleHotels /\ IdleConcurrent /\ IdleEnv

NextHotels ==
    \/ op.tool = "none" /\ \E a \in SearchArgs, env \in PlacesEnvs : Search(a, env)
    \/ op.tool = "none" /\ \E a \in DetailsArgs, env \in DetailsEnvs, penv \in PriceEnvs :
          DetailsAndPrices(a, env, penv)
    \/ op.tool = "none" /\ \E a \in AnalyzeArgs, env \in PlacesEnvs : Analyze(a, env)

SpecHotels == InitHotels /\ [][NextHotels]_vars

(***************************************************************************)
(* Claims about the hotel tools.                                           *)
(***************************************************************************)
\* the provider fails: no API key, an error answer, an answer or a place entry
\* that is no JSON object
ProviderFails(env) ==
    \/ ~env.api_key
    \/ env.http # "ok"
    \/ \E i \in DOMAIN env.places : ~env.places[i].dict

\* C8: hotels_search never raises; for every combination of arguments and every
\* provider behaviour it returns a value, and on any failure (an error payload, a
\* raised exception such as a rejected page size, rating or a missing API key, a
\* malformed place entry, no search mode) that value is status "error" with an
\* error message and results = [].
C8_SearchNeverRaises ==
    op.tool = "hotels_search" =>
        /\ ~res.raised
        /\ res.status \in {"success", "error"}
        /\ res.status = "error" => (res.error # "" /\ res.results = <<>>)
        /\ LET a == op.search
               byLocation == a.location.some
               nearby == ~a.location.some /\ a.latitude.some /\ a.longitude.some
           IN (\/ ~byLocation /\ ~nearby
               \/ ProviderFails(op.env)
               \/ a.max_results = SomeV(0)
               \/ byLocation /\ a.min_rating = SomeV(6)
               \/ nearby /\ a.radius = SomeV(60000))
              => res.status = "error"

\* a search whose provider answered with a malformed place entry
C8_Witness ==
    /\ op.tool = "hotels_search"
    /\ op.search.location.some
    /\ op.env.api_key
    /\ op.env.http = "ok"
    /\ \E i \in DOMAIN op.env.places : ~op.env.places[i].dict
    /\ res.status = "error"

\* C9: in every mode of hotels_analyze (location, route, comprehensive) a
\* provider error payload or a raised exception yields status "error" with an
\* error message, never "success", and no exception escapes; this includes
\* comprehensive mode when the delegated by-location search fails.
C9_AnalyzeErrors ==
    (/\ op.tool = "hotels_analyze"
     /\ op.analyze.mode \in {"location", "route", "comprehensive"}
     /\ (~op.env.api_key \/ op.env.http # "ok"))
    => (~res.raised /\ res.status = "error" /\ res.error # "")

\* C10: hotel_details_and_prices attempts the details sub-operation iff place_id
\* is given (non-empty) and the pricing sub-operation iff check_in and check_out
\* are both given (non-empty), each independently of the other's outcome; the
\* overall status is "success" iff every attempted sub-operation succeeded and
\* "partial" otherwise; each sub-result keeps its own status and error, a
\* sub-operation not requested is absent, and no exception escapes.
C10_DetailsAndPrices ==
    op.tool = "hotel_details_and_prices" =>
        LET a == op.details
            d == res.details
            p == res.prices
            dFailed == d.present /\ d.status # "success"
            pFailed == p.present /\ p.status # "success"
        IN /\ ~res.raised
           /\ d.present <=> a.place_id = "id"
           /\ p.present <=> (TruthyStr(a.check_in) /\ TruthyStr(a.check_out))
           /\ d.present => (d.status = "success" <=> (op.env.api_key /\ op.env.http = "ok"))
           /\ p.present => (p.status = "success" <=> (op.penv.serp_key /\ op.penv.http = "ok"))
           /\ d.present => (d.status \in {"success", "error"} /\ (d.status = "error" <=> d.error # ""))
           /\ p.present => (p.status \in {"success", "error"} /\ (p.status = "error" <=> p.error # ""))
           /\ res.status = "success" <=> (~dFailed /\ ~pFailed)
           /\ res.status = "partial" <=> (dFailed \/ pFailed)

\* the details lookup succeeded and the pricing lookup failed
C10_Witness ==
    /\ op.tool = "hotel_details_and_prices"
    /\ res.details.present /\ res.details.status = "success"
    /\ res.prices.present /\ res.prices.status = "error"
    /\ res.status = "partial"


\* C11: hotels_search called with no location and without a complete coordinate
\* pair returns an error result with results = [] and makes no provider call;
\* with a location the by-location search is the only provider call, with only
\* a complete coordinate pair the nearby search is the only provider call; at
\* most one provider call is made per invocation.
C11_ModesExclusive ==
    op.tool = "hotels_search" =>
        LET a == op.search
            pair == a.latitude.some /\ a.longitude.some
        IN /\ Len(res.calls) <= 1
           /\ (~a.location.some /\ ~pair) =>
                 (res.status = "error" /\ res.results = <<>> /\ res.calls = <<>>)
           /\ a.location.some =>
                 (Len(res.calls) = 1 /\ res.calls[1].fn = "text_search")
           /\ (~a.location.some /\ pair) =>
                 (Len(res.calls) = 1 /\ res.calls[1].fn = "nearby_search")

\* a search given a location and a coordinate pair made the by-location call only
C11_Witness ==
    /\ op.tool = "hotels_search"
    /\ op.search.location.some
    /\ op.search.latitude.some /\ op.search.longitude.some
    /\ Len(res.calls) = 1 /\ res.calls[1].fn = "text_search"
    /\ res.status = "success"

\* a successful nearby search: no location, a complete coordinate pair
NearbySuccess ==
    /\ op.tool = "hotels_search"
    /\ ~op.search.location.some
    /\ op.search.latitude.some /\ op.search.longitude.some
    /\ res.status = "success"

\* the number of positions of seq that hold x
Count(seq, x) == Cardinality({i \in DOMAIN seq : seq[i] = x})

\* the provider hits a nearby search with this minimum rating keeps: those with
\* coordinates whose rating is absent or at least min_rating
KeptHits(hits, min_rating) ==
    {i \in DOMAIN hits :
        /\ _normalize_place_data(hits[i]).coordinates.some
        /\ (hits[i].rating.t = "none" \/ hits[i].rating.v >= min_rating)}

\* the results of a nearby search are exactly the normalized hits it keeps, each
\* carrying its distance from the search centre rounded to the metre, and the
\* carried distances never decrease along the list
NearbyContent ==
        LET a == op.search
            hits == op.env.places
            min_rating == IF a.min_rating.some THEN a.min_rating.v ELSE 0
            kept == KeptHits(hits, min_rating)
            bare == [j \in DOMAIN res.results |->
                        [res.results[j] EXCEPT !.distance_from_center = NoDistance]]
        IN /\ Len(res.results) = Cardinality(kept)
           /\ \A i \in kept :
                 Count(bare, _normalize_place_data(hits[i]))
                    = Cardinality({k \in kept : _normalize_place_data(hits[k])
                                                  = _normalize_place_data(hits[i])})
           /\ \A j \in DOMAIN res.results :
                 LET r == res.results[j]
                     um == _haversine_km(a.latitude.v, a.longitude.v,
                                         r.coordinates.latitude, r.coordinates.longitude)
                     d == r.distance_from_center
                 IN /\ d.some
                    \* the nearest whole metre, which is the nearest thousandth of a km
                    /\ 2 * Abs(um - d.meters * 1000000) <= 1000000
                    /\ d.km1000 = d.meters
           /\ \A i, j \in DOMAIN res.results :
                 i < j => res.results[i].distance_from_center.km1000
                            <= res.results[j].distance_from_center.km1000

\* the distance of a result from the search centre, before rounding
TrueDistance(r) ==
    _haversine_km(op.search.latitude.v, op.search.longitude.v,
                  r.coordinates.latitude, r.coordinates.longitude)

\* C12 as stated: for a successful nearby hotels_search, results is exactly the
\* list of normalized provider hits that have coordinates and whose rating is
\* absent or >= min_rating, each carrying distance_from_center = {km rounded to
\* 3 decimals, meters rounded to the nearest integer} measured from the search
\* centre, and a nearer candidate always precedes a farther one.
C12_NearerAlwaysFirst ==
    NearbySuccess =>
        /\ NearbyContent
        /\ \A i, j \in DOMAIN res.results :
              TrueDistance(res.results[i]) < TrueDistance(res.results[j]) => i < j

\* C12 as amended: the same content, and the list is ordered by non-decreasing
\* carried (rounded) distance_from_center.km: a candidate whose carried distance
\* is smaller always precedes one whose carried distance is larger, candidates
\* whose distances round to the same km value keep the provider's order.
C12_NearbySorted ==
    NearbySuccess =>
        /\ NearbyContent
        /\ \A i, j \in DOMAIN res.results :
              res.results[i].distance_from_center.km1000
                 < res.results[j].distance_from_center.km1000 => i < j
        /\ \A i, j \in DOMAIN res.results :
              (/\ i < j
               /\ res.results[i].distance_from_center.km1000
                     = res.results[j].distance_from_center.km1000)
              => \E k, l \in DOMAIN op.env.places :
                    /\ k < l
                    /\ op.env.places[k].id = res.results[i].place_id
                    /\ op.env.places[l].id = res.results[j].place_id

\* the provider sent the farther hit first and the search returned it last
C12_Witness ==
    /\ NearbySuccess
    /\ Len(op.env.places) = 2
    /\ op.env.places[1].id.v = "far" /\ op.env.places[2].id.v = "near"
    /\ Len(res.results) = 2
    /\ res.results[1].place_id.v = "near" /\ res.results[2].place_id.v = "far"
    /\ res.results[1].distance_from_center.meters < res.results[2].distance_from_center.meters

\* C13: every entry in the results of a successful hotels_search, by location or
\* nearby, has non-null coordinates: a provider hit whose normalized record
\* lacks coordinates never appears in results, every hit that has coordinates
\* (and, in nearby mode, passes the rating filter) does appear, and total_found
\* equals the number of returned results.
C13_ResultsHaveCoordinates ==
    (op.tool = "hotels_search" /\ res.status = "success") =>
        LET a == op.search
            hits == op.env.places
            located == {i \in DOMAIN hits : _normalize_place_data(hits[i]).coordinates.some}
            min_rating == IF a.min_rating.some THEN a.min_rating.v ELSE 0
            expected == IF a.location.some THEN located ELSE KeptHits(hits, min_rating)
            ids == {res.results[j].place_id : j \in DOMAIN res.results}
        IN /\ \A j \in DOMAIN res.results : res.results[j].coordinates.some
           /\ \A i \in DOMAIN hits : i \notin located => hits[i].id \notin ids
           /\ \A i \in expected : hits[i].id \in ids
           /\ Len(res.results) = Cardinality(expected)
           /\ res.total_found = Len(res.results)

\* a by-location search dropped a hit without coordinates and kept another hit
C13_Witness ==
    /\ op.tool = "hotels_search"
    /\ op.search.location.some
    /\ res.status = "success"
    /\ \E i \in DOMAIN op.env.places : op.env.places[i].id.v = "equator"
    /\ Len(res.results) = 1
    /\ res.total_found = 1

\* C14: hotels_search caps the result count: in either mode the number of
\* entries in results never exceeds min(max_results, 20) (20 when max_results is
\* omitted), whatever number of places the provider returns, and the count
\* requested from the provider never exceeds 20.
C14_ResultCap ==
    op.tool = "hotels_search" =>
        LET max_results == IF op.search.max_results.some THEN op.search.max_results.v ELSE 20
            cap == IF max_results <= 20 THEN max_results ELSE 20
        IN /\ Len(res.results) <= cap
           /\ \A c \in DOMAIN res.calls : res.calls[c].size <= 20

(***************************************************************************)
(* Claims about DateRange and the field validators.                        *)
(***************************************************************************)
\* C15: after every successful construction of a DateRange, end_date is set and
\* end_date >= start_date: when end_date is omitted it equals start_date +
\* number_of_days days; when a supplied end_date is before start_date
\* construction fails with a validation error; end_date equal to start_date is
\* accepted.
C15_DateRangeEnd ==
    (built.cls = "DateRange" /\ "range" \in DOMAIN built) =>
        LET a == built.range
        IN /\ built.ok =>
                 /\ dr.start_date = a.start_date
                 /\ dr.end_date.some
                 /\ dr.end_date.v >= dr.start_date
                 /\ ~a.end_date.some => dr.end_date.v = a.start_date + a.number_of_days
                 /\ a.end_date.some => dr.end_date = a.end_date
           /\ (a.end_date.some /\ a.end_date.v < a.start_date) => ~built.ok
           /\ (a.number_of_days >= 1 /\ a.end_date.some /\ a.end_date.v >= a.start_date)
                 => built.ok
           /\ (a.number_of_days >= 1 /\ ~a.end_date.some) => built.ok

\* a DateRange built without an end date got start_date + number_of_days
C15_Witness ==
    /\ built.cls = "DateRange"
    /\ "range" \in DOMAIN built
    /\ built.ok
    /\ ~built.range.end_date.some
    /\ built.range.start_date = 1
    /\ built.range.number_of_days = 2
    /\ dr.end_date = SomeDate(3)

\* the digit group is a year, a month, a day of that month and year
IsYear(tok) == tok.w = 4 /\ tok.v >= 1
IsMonth(tok) == tok.w \in {1, 2} /\ (tok.w = 1 => tok.v <= 9) /\ tok.v \in 1..12
IsDayOf(tok, m, y) ==
    tok.w \in {1, 2} /\ (tok.w = 1 => tok.v <= 9) /\ tok.v \in 1..DaysIn(m.v, y.v)

\* the string reads as a date with this separator and these positions of day,
\* month and year
ReadsAs(s, sep, di, mi, yi) ==
    /\ s.sep = sep
    /\ IsYear(s.f[yi])
    /\ IsMonth(s.f[mi])
    /\ IsDayOf(s.f[di], s.f[mi], s.f[yi])

\* the dd.mm.yyyy text of a day, month and year
Dotted(d, m, y) ==
    [t |-> "str", sep |-> ".", f |-> <<Tok(d, 2), Tok(m, 2), Tok(y, 4)>>, hour |-> 0]

\* the reference: the formats dd.mm.yyyy, yyyy-mm-dd, yyyy/mm/dd, dd/mm/yyyy,
\* mm/dd/yyyy in that order, the string itself when none reads it
DateLikeReference(s) ==
    IF ReadsAs(s, ".", 1, 2, 3) THEN Dotted(s.f[1].v, s.f[2].v, s.f[3].v)
    ELSE IF ReadsAs(s, "-", 3, 2, 1) THEN Dotted(s.f[3].v, s.f[2].v, s.f[1].v)
    ELSE IF ReadsAs(s, "/", 3, 2, 1) THEN Dotted(s.f[3].v, s.f[2].v, s.f[1].v)
    ELSE IF ReadsAs(s, "/", 1, 2, 3) THEN Dotted(s.f[1].v, s.f[2].v, s.f[3].v)
    ELSE IF ReadsAs(s, "/", 2, 1, 3) THEN Dotted(s.f[2].v, s.f[1].v, s.f[3].v)
    ELSE s

\* C16: _coerce_date_like equals this reference for every input: a calendar
\* date or a date-time yields its dd.mm.yyyy date (time of day discarded); a
\* string is tried against dd.mm.yyyy, yyyy-mm-dd, yyyy/mm/dd, dd/mm/yyyy,
\* mm/dd/yyyy in exactly that order and the first format that parses determines
\* the result; a string matching none of the formats is returned unchanged
\* without failure; any other input type fails with a type error.
C16_CoerceDateLike ==
    op.tool = "_coerce_date_like" =>
        LET v == op.arg
        IN /\ v.t \in {"date", "datetime"} =>
                 (~res.raised /\ res.value = Dotted(v.f[1].v, v.f[2].v, v.f[3].v))
           /\ v.t = "str" => (~res.raised /\ res.value = DateLikeReference(v))
           /\ v.t \notin {"date", "datetime", "str"} =>
                 (res.raised /\ res.value.t = "TypeError")

\* "01/02/2025", valid as dd/mm/yyyy and as mm/dd/yyyy, came back as 01.02.2025
C16_Witness ==
    /\ op.tool = "_coerce_date_like"
    /\ op.arg = DateStr("/", <<Tok(1, 2), Tok(2, 2), Tok(2025, 4)>>)
    /\ ~res.raised
    /\ res.value = DateStr(".", <<Tok(1, 2), Tok(2, 2), Tok(2025, 4)>>)

\* C17: Place construction accepts lat and lon only as numeric values (integer
\* or float) with lat in [-90, 90] and lon in [-180, 180]: a string coordinate
\* such as "41.0" fails with a type error even though it looks numeric, an
\* out-of-range numeric value fails validation, and an in-range numeric value
\* succeeds.
C17_LatLonNumeric ==
    built.cls = "Place" =>
        LET p == built.place
            numeric == p.lat.num /\ p.lon.num
            inRange == /\ -90 <= p.lat.v /\ p.lat.v <= 90
                       /\ -180 <= p.lon.v /\ p.lon.v <= 180
        IN /\ ~numeric => (~built.ok /\ built.error = "TypeError")
           /\ (numeric /\ ~inRange) => (~built.ok /\ built.error = "ValidationError")
           /\ (numeric /\ inRange /\ p.order >= 1) => (built.ok /\ built.error = "none")
           /\ built.ok => (numeric /\ inRange)

\* Place(lat="41.0", lon=0) was refused with a TypeError
C17_Witness ==
    /\ built.cls = "Place"
    /\ built.place.lat = StrV(41)
    /\ built.place.lon = NumV(0)
    /\ ~built.ok
    /\ built.error = "TypeError"

\* a validated time that is a negative integer
NegativeTime(v) == v.t = "int" /\ v.p[1].v < 0

\* C18 as stated: a non-negative integer is kept as is, a negative integer is
\* rejected, a well-formed HH:MM or HH:MM:SS string is kept unchanged, and
\* every other string passes through unchanged without failure; the validated
\* time is therefore never a negative integer.
C18_StringsUnchanged ==
    op.tool = "_time_ok" =>
        LET v == op.arg
        IN /\ (v.t = "int" /\ v.p[1].v >= 0) => (~res.raised /\ res.value = v)
           /\ (v.t = "int" /\ v.p[1].v < 0) => res.raised
           /\ v.t = "str" => (~res.raised /\ res.value = v)
           /\ ~res.raised => ~NegativeTime(res.value)

\* C18 as amended: a non-negative integer is kept as is, a negative integer is
\* rejected, a string for which str.isdigit() holds is converted with int() (a
\* string of decimal digits becomes the non-negative integer it denotes, one
\* int() cannot read is rejected), and every other string, a well-formed HH:MM
\* or HH:MM:SS string included, passes through unchanged without failure; the
\* validated time is never a negative integer.
C18_TimeValidation ==
    op.tool = "_time_ok" =>
        LET v == op.arg
        IN /\ (v.t = "int" /\ v.p[1].v >= 0) => (~res.raised /\ res.value = v)
           /\ (v.t = "int" /\ v.p[1].v < 0) => res.raised
           /\ (v.t = "str" /\ v.shape = "digits") =>
                 (~res.raised /\ res.value.t = "int" /\ res.value.p[1].v = v.p[1].v
                  /\ res.value.p[1].v >= 0)
           /\ (v.t = "str" /\ v.shape = "superscript") => res.raised
           /\ (v.t = "str" /\ v.shape \in {"colon", "text"}) =>
                 (~res.raised /\ res.value = v)
           /\ ~res.raised => ~NegativeTime(res.value)

\* the string "007" was validated to the integer 7
C18_Witness ==
    /\ op.tool = "_time_ok"
    /\ op.arg = StrTime("digits", <<Tok(7, 3)>>)
    /\ ~res.raised
    /\ res.value.t = "int" /\ res.value.p[1].v = 7

(***************************************************************************)
(* Claims about _normalize_place_data.                                     *)
(***************************************************************************)
\* the canonical member when it is present, otherwise the legacy member,
\* otherwise null
CanonicalFirst(canonical, legacy) ==
    IF canonical.some THEN canonical ELSE IF legacy.some THEN legacy ELSE NoneV

\* C19: for every canonical field produced by _normalize_place_data (place_id,
\* name, address, rating count, price level, phone, website, opening hours,
\* latitude, longitude) the value is the first-listed canonical provider field
\* when that field is present, otherwise the legacy-named field, otherwise null
\* (types and photos default to an empty list); this holds for name as well,
\* whose display name may be a plain string or a {text} wrapper with the legacy
\* name as fallback; no exception is raised when optional fields are missing.
C19_CanonicalFirst ==
    op.tool = "_normalize_place_data" =>
        LET p == op.arg
            n == res.value
        IN /\ ~res.raised
           /\ n.place_id = (IF p.id.some THEN p.id
                            ELSE IF p.place_id.some THEN p.place_id ELSE NoneS)
           /\ n.name = CanonicalFirst(p.displayName.text, p.name)
           /\ n.address = CanonicalFirst(p.formattedAddress, p.address)
           /\ n.user_ratings_total = CanonicalFirst(p.userRatingCount, p.user_rating_count)
           /\ n.price_level = CanonicalFirst(p.priceLevel, p.price_level)
           /\ n.phone = CanonicalFirst(p.internationalPhoneNumber, p.phone)
           /\ n.website = CanonicalFirst(p.websiteUri, p.website)
           /\ n.opening_hours = CanonicalFirst(p.currentOpeningHours, p.opening_hours)
           /\ n.types = (IF p.types.some THEN p.types.v ELSE <<>>)
           /\ n.photos = (IF p.photos.some THEN p.photos.v ELSE <<>>)
           /\ n.coordinates.some =>
                 /\ n.coordinates.latitude = CanonicalFirst(p.latitude, p.lat).v
                 /\ n.coordinates.longitude = CanonicalFirst(p.longitude, p.lng).v

\* C20: _normalize_place_data sets coordinates to a {latitude, longitude} pair
\* if and only if both the resolved latitude and the resolved longitude are
\* truthy; if either is missing, null or exactly 0 the coordinates field is
\* null, so a place on the equator or the prime meridian has no coordinates.
C20_CoordinatesTruthy ==
    op.tool = "_normalize_place_data" =>
        LET p == op.arg
            n == res.value
            \* location.get("latitude") or location.get("lat")
            lat == IF p.latitude.some /\ p.latitude.v # 0 THEN p.latitude ELSE p.lat
            lng == IF p.longitude.some /\ p.longitude.v # 0 THEN p.longitude ELSE p.lng
            set == lat.some /\ lat.v # 0 /\ lng.some /\ lng.v # 0
        IN /\ n.coordinates.some <=> set
           /\ set => (n.coordinates.latitude = lat.v /\ n.coordinates.longitude = lng.v)
           /\ ~set => n.coordinates = NoCoordinates

\* a place on the equator came back without coordinates
C20_Witness ==
    /\ op.tool = "_normalize_place_data"
    /\ op.arg.latitude = SomeV(0) /\ op.arg.lat = NoneV
    /\ op.arg.longitude = SomeV(29)
    /\ ~res.value.coordinates.some

(***************************************************************************)
(* hotels_agent/tools.py: _calculate_name_similarity.  A name is None or a *)
(* string; a string is the sequence of its characters, so that lower(),    *)
(* strip(), the substring test and split() work on what the code works on. *)
(* A score is the fraction n / d.                                          *)
(***************************************************************************)
MaxNameWords == 3

NoName == [some |-> FALSE, s |-> <<>>]
Name(s) == [some |-> TRUE, s |-> s]

Grand == <<"G", "r", "a", "n", "d">>
Hotel == <<"H", "o", "t", "e", "l">>
Plaza == <<"P", "l", "a", "z", "a">>
Hilton == <<"H", "i", "l", "t", "o", "n">>
Istanbul == <<"I", "s", "t", "a", "n", "b", "u", "l">>
Marriott == <<"M", "a", "r", "r", "i", "o", "t", "t">>
Ankara == <<"A", "n", "k", "a", "r", "a">>
Space == <<" ">>
Tab == <<"\t">>

\* str.lower() on the characters used
LowerChar(c) ==
    CASE c = "A" -> "a"
      [] c = "G" -> "g"
      [] c = "H" -> "h"
      [] c = "I" -> "i"
      [] c = "M" -> "m"
      [] c = "P" -> "p"
      [] OTHER -> c

lower(s) == [i \in DOMAIN s |-> LowerChar(s[i])]
upper(s) ==
    [i \in DOMAIN s |->
        IF \E c \in {"A", "G", "H", "I", "M", "P"} : LowerChar(c) = s[i]
        THEN CHOOSE c \in {"A", "G", "H", "I", "M", "P"} : LowerChar(c) = s[i]
        ELSE s[i]]

IsSpace(c) == c \in {" ", "\t"}

RECURSIVE lstrip(_)
lstrip(s) == IF s # <<>> /\ IsSpace(s[1]) THEN lstrip(Tail(s)) ELSE s

RECURSIVE rstrip(_)
rstrip(s) ==
    IF s # <<>> /\ IsSpace(s[Len(s)]) THEN rstrip(SubSeq(s, 1, Len(s) - 1)) ELSE s

\* str.strip()
strip(s) == rstrip(lstrip(s))

\* a in b, for strings
In(a, b) == \E i \in 0..(Len(b) - Len(a)) : SubSeq(b, i + 1, i + Len(a)) = a

\* set(s.split()): the maximal runs of characters that are no whitespace
split(s) ==
    {SubSeq(s, i, j) : <<i, j>> \in
        {p \in (DOMAIN s) \X (DOMAIN s) :
            /\ p[1] <= p[2]
            /\ \A k \in p[1]..p[2] : ~IsSpace(s[k])
            /\ (p[1] = 1 \/ IsSpace(s[p[1] - 1]))
            /\ (p[2] = Len(s) \/ IsSpace(s[p[2] + 1]))}}

Score(n, d) == [n |-> n, d |-> d]

ScoreAdd(a, b) == Score(a.n * b.d + b.n * a.d, a.d * b.d)
ScoreLe(a, b) == a.n * b.d <= b.n * a.d
ScoreEq(a, b) == a.n * b.d = b.n * a.d
ScoreMin(a, b) == IF ScoreLe(a, b) THEN a ELSE b

\* line 84
common ==
    {lower(Hotel), <<"i", "n", "n">>, <<"r", "e", "s", "o", "r", "t">>,
     <<"l", "o", "d", "g", "e">>, <<"s", "u", "i", "t", "e", "s">>,
     <<"p", "a", "l", "a", "c", "e">>, lower(Grand)}

\* mutant: the bonus for two common words is left out
M_WordSetScore(n1, n2) ==
    LET words1 == split(n1) \ common
        words2 == split(n2) \ common
    IN IF words1 = {} \/ words2 = {} THEN Score(0, 1)
       ELSE ScoreMin(Score(Cardinality(words1 \cap words2),
                           Cardinality(words1 \cup words2)), Score(1, 1))

\* lines 82-91: the rule on the word sets
WordSetScore(n1, n2) ==
    LET words1 == split(n1) \ common
        words2 == split(n2) \ common
        jaccard == Score(Cardinality(words1 \cap words2), Cardinality(words1 \cup words2))
    IN IF words1 = {} \/ words2 = {} THEN Score(0, 1)
       ELSE IF Cardinality(words1 \cap words2) >= 2
       THEN ScoreMin(ScoreAdd(jaccard, Score(2, 10)), Score(1, 1))
       ELSE ScoreMin(jaccard, Score(1, 1))

\* mutant: the substring test comes before the test of equality
M_calculate_name_similarity(name1, name2) ==
    LET n1 == strip(lower(name1.s))
        n2 == strip(lower(name2.s))
    IN IF ~name1.some \/ name1.s = <<>> \/ ~name2.some \/ name2.s = <<>> THEN Score(0, 1)
       ELSE IF In(n1, n2) \/ In(n2, n1) THEN Score(8, 10)
       ELSE IF n1 = n2 THEN Score(1, 1)
       ELSE WordSetScore(n1, n2)

\* _calculate_name_similarity(name1, name2)
_calculate_name_similarity(name1, name2) ==
    LET n1 == strip(lower(name1.s))
        n2 == strip(lower(name2.s))
    IN IF ~name1.some \/ name1.s = <<>> \/ ~name2.some \/ name2.s = <<>> THEN Score(0, 1)
       ELSE IF n1 = n2 THEN Score(1, 1)
       ELSE IF In(n1, n2) \/ In(n2, n1) THEN Score(8, 10)
       ELSE WordSetScore(n1, n2)

\* the words joined by single spaces
RECURSIVE Join(_)
Join(ws) ==
    IF ws = <<>> THEN <<>>
    ELSE IF Len(ws) = 1 THEN ws[1]
    ELSE ws[1] \o Space \o Join(Tail(ws))

\* names of up to MaxNameWords different words, two of them stop words
Vocabulary == {Grand, Hotel, Plaza, Hilton}

WordedNames ==
    {Join(ws) : ws \in {q \in SeqsUpTo(Vocabulary, MaxNameWords) :
                            \A i, j \in DOMAIN q : i # j => q[i] # q[j]}}

\* the names of the documented examples, and names that differ in case, in
\* padding, in the whitespace between words, by a repeated word, or that are a
\* piece of a word
NameSamples ==
    {Join(<<Grand, Hotel, Plaza>>), Join(<<Hotel, Plaza>>),
     Join(<<Hilton, Istanbul>>), Join(<<Marriott, Ankara>>),
     Join(<<Hilton, Plaza, Ankara>>), Join(<<Ankara, Hilton, Plaza>>),
     Join(<<Plaza, Plaza, Hilton>>),
     upper(Join(<<Hotel, Plaza>>)),
     Space \o Join(<<Hotel, Plaza>>) \o Space,
     Hilton \o Space \o Tab \o Plaza,
     Space,
     SubSeq(Hilton, 1, 3),
     Join(<<Grand, Hotel>>), Join(<<Hotel, Ankara>>)}

NameInputs == {NoName} \cup {Name(s) : s \in WordedNames \cup NameSamples}

\* a call of _calculate_name_similarity
CalculateNameSimilarity(name1, name2) ==
    /\ op.tool = "none"
    /\ op' = [tool |-> "_calculate_name_similarity", arg |-> <<name1, name2>>]
    /\ res' = Returned(_calculate_name_similarity(name1, name2))
    /\ UNCHANGED varsModel
    /\ UNCHANGED varsSave
    /\ UNCHANGED varsConcurrent
    /\ UNCHANGED varsEnv

\* The whole formula of _haversine_km for points on a grid of whole degrees,
\* in fixed point: sines and cosines in ten-thousandths, angles in degrees.
\* math.sin at a multiple of 15 degrees between -180 and 180
SinPoints == <<0, 2588, 5000, 7071, 8660, 9659, 10000>>

Sin(x) ==
    LET y == Abs(x)
        s == IF y <= 90 THEN SinPoints[y \div 15 + 1] ELSE SinPoints[(180 - y) \div 15 + 1]
    IN IF x < 0 THEN -s ELSE s

\* math.cos at a latitude
Cos(x) == Sin(90 - x)

\* math.sin(x / 2) ** 2
SinHalfSquared(x) == (Sin(x \div 2) * Sin(x \div 2)) \div 10000

\* 2 * math.atan2(math.sqrt(a), math.sqrt(1 - a)) in hundredths of a degree:
\* the angle c with sin(c / 2) ** 2 = a, interpolated between the points of
\* the sine
CentralAngle(a) ==
    LET S(k) == (SinPoints[k + 1] * SinPoints[k + 1]) \div 10000
    IN IF a >= S(6) THEN 18000
       ELSE LET k == CHOOSE j \in 0..5 : S(j) <= a /\ a < S(j + 1)
            IN 3000 * k + (3000 * (a - S(k))) \div (S(k + 1) - S(k))

\* mutant: the cosine of the first latitude is taken twice
M_HaversineKm(lat1, lon1, lat2, lon2) ==
    LET dphi == lat2 - lat1
        dlmb == lon2 - lon1
        a == SinHalfSquared(dphi)
             + (((Cos(lat1) * Cos(lat1)) \div 10000) * SinHalfSquared(dlmb)) \div 10000
    IN (MetersPerDegree * CentralAngle(a)) \div 100000

\* lines 39-44 in whole kilometres; r times an angle in radians is
\* MetersPerDegree times the angle in degrees
HaversineKm(lat1, lon1, lat2, lon2) ==
    LET dphi == lat2 - lat1
        dlmb == lon2 - lon1
        a == SinHalfSquared(dphi)
             + (((Cos(lat1) * Cos(lat2)) \div 10000) * SinHalfSquared(dlmb)) \div 10000
    IN (MetersPerDegree * CentralAngle(a)) \div 100000

Latitudes == {-90, -60, -30, 0, 30, 60, 90}
Longitudes == {-180, -120, -60, 0, 60, 120, 180}
Points == Latitudes \X Longitudes

\* a call of _haversine_km
Haversine(a, b) ==
    /\ op.tool = "none"
    /\ op' = [tool |-> "_haversine_km", arg |-> <<a, b>>]
    /\ res' = Returned(HaversineKm(a[1], a[2], b[1], b[2]))
    /\ UNCHANGED varsModel
    /\ UNCHANGED varsSave
    /\ UNCHANGED varsConcurrent
    /\ UNCHANGED varsEnv

\* digit groups of the date strings tried: years of four and of two digits and
\* the last year, months and days with and without a leading zero, a month
\* that is none
StayYears == {Tok(2024, 4), Tok(2026, 4), Tok(9999, 4), Tok(26, 2)}
StayMonths == {Tok(1, 1), Tok(1, 2), Tok(3, 2), Tok(12, 2), Tok(13, 2)}
StayDays == {Tok(1, 2), Tok(5, 1), Tok(30, 2), Tok(31, 2)}

StayInputs ==
    {NoDateArg, EmptyString, Text, DateStr(".", <<Tok(1, 2), Tok(3, 2), Tok(2026, 4)>>)}
    \cup {DateStr("-", <<y, m, d>>) : y \in StayYears, m \in StayMonths, d \in StayDays}

\* a call of _validate_dates
ValidateDates(check_in, check_out, now) ==
    /\ op.tool = "none"
    /\ op' = [tool |-> "_validate_dates", arg |-> <<check_in, check_out, now>>]
    /\ res' = _validate_dates(check_in, check_out, now)
    /\ UNCHANGED varsModel
    /\ UNCHANGED varsSave
    /\ UNCHANGED varsConcurrent
    /\ UNCHANGED varsEnv

\* calls of the helpers of the hotel tools
InitHelpers == IdleModel /\ IdleSave /\ IdleHotels /\ IdleConcurrent /\ IdleEnv

NextHelpers ==
    \/ op.tool = "none" /\ \E name1 \in NameInputs, name2 \in NameInputs :
          CalculateNameSimilarity(name1, name2)
    \/ op.tool = "none" /\ \E check_in \in StayInputs, check_out \in StayInputs, now \in Clocks :
          ValidateDates(check_in, check_out, now)
    \/ op.tool = "none" /\ \E a \in Points, b \in Points : Haversine(a, b)

SpecHelpers == InitHelpers /\ [][NextHelpers]_vars

(***************************************************************************)
(* Claims about the helpers of the hotel tools.                            *)
(***************************************************************************)
NameAbsent(name) == ~name.some \/ Len(name.s) = 0

\* a name lower-cased and trimmed
Trimmed(name) == strip(lower(name.s))

SimilarityCall == op.tool = "_calculate_name_similarity"

\* C21: _calculate_name_similarity applies its first three rules in order: when
\* either name is None or empty the score is 0.0; otherwise when the names are
\* equal after lower-casing and trimming the score is 1.0; otherwise when one
\* trimmed lower-cased name is a substring of the other the score is 0.8; the
\* rule on the word sets gives the score only when none of these applies.
C21_RulesInOrder ==
    SimilarityCall =>
        LET name1 == op.arg[1]
            name2 == op.arg[2]
            score == res.value
        IN /\ ~res.raised
           /\ (NameAbsent(name1) \/ NameAbsent(name2)) => score = Score(0, 1)
           /\ (~NameAbsent(name1) /\ ~NameAbsent(name2)) =>
                 /\ Trimmed(name1) = Trimmed(name2) => score = Score(1, 1)
                 /\ Trimmed(name1) # Trimmed(name2) =>
                       /\ (In(Trimmed(name1), Trimmed(name2))
                           \/ In(Trimmed(name2), Trimmed(name1))) => score = Score(8, 10)
                       /\ ~(In(Trimmed(name1), Trimmed(name2))
                            \/ In(Trimmed(name2), Trimmed(name1))) =>
                             score = WordSetScore(Trimmed(name1), Trimmed(name2))

\* "Grand Hotel Plaza" against "Hotel Plaza" scored 0.8
C21_Witness ==
    /\ SimilarityCall
    /\ op.arg[1] = Name(Join(<<Grand, Hotel, Plaza>>))
    /\ op.arg[2] = Name(Join(<<Hotel, Plaza>>))
    /\ res.value = Score(8, 10)

\* no rule before the rule on the word sets applies to the two names
NoEarlierRule(name1, name2) ==
    /\ ~NameAbsent(name1)
    /\ ~NameAbsent(name2)
    /\ Trimmed(name1) # Trimmed(name2)
    /\ ~In(Trimmed(name1), Trimmed(name2))
    /\ ~In(Trimmed(name2), Trimmed(name1))

\* the words of a name that are no stop words
NonStopWords(name) == split(Trimmed(name)) \ common

DatesCall == op.tool = "_validate_dates"

\* the date a string denotes when read as yyyy-mm-dd
Denotes(s) == strptime(s, YMD)

\* a is a day before b
Before(a, b) ==
    \/ a.y < b.y
    \/ a.y = b.y /\ a.m < b.m
    \/ a.y = b.y /\ a.m = b.m /\ a.d < b.d

\* a string written yyyy-mm-dd with leading zeros
ZeroPadded(s) ==
    /\ s.t = "str" /\ s.sep = "-"
    /\ s.f[1].w = 4 /\ s.f[2].w = 2 /\ s.f[3].w = 2
    /\ Denotes(s).ok

\* the default stay: check_in seven days from now, check_out five nights later
IsDefaultStay(r, now) ==
    /\ ZeroPadded(r.check_in) /\ ZeroPadded(r.check_out)
    /\ Denotes(r.check_in) = AddDays(now, 7)
    /\ Denotes(r.check_out) = AddDays(now, 12)

\* C23 as stated: an unparseable or past check_in gives the default stay; for a
\* valid future check_in a check_out that is not after it is replaced by
\* check_in + 1 day; a valid future check_in with a later check_out is returned
\* unchanged; the function never fails.
C23_ReturnedUnchanged ==
    DatesCall =>
        LET check_in == op.arg[1]
            check_out == op.arg[2]
            now == op.arg[3]
            ci == Denotes(check_in)
            co == Denotes(check_out)
        IN /\ ~res.raised
           /\ (~ci.ok \/ Before(ci, now)) => IsDefaultStay(res, now)
           /\ (ci.ok /\ Before(now, ci) /\ co.ok /\ ~Before(ci, co)) =>
                 /\ Denotes(res.check_in) = ci
                 /\ AddDays(ci, 1).ok
                 /\ Denotes(res.check_out) = AddDays(ci, 1)
           /\ (ci.ok /\ Before(now, ci) /\ co.ok /\ Before(ci, co)) =>
                 /\ res.check_in = check_in
                 /\ res.check_out = check_out

\* C23: an unparseable or past check_in gives the default stay; for a valid
\* future check_in that has a next day, a check_out that is not after it is
\* replaced by check_in + 1 day, and for the last date of the calendar the
\* default stay is returned; a valid future check_in with a later check_out is
\* returned as the same two dates written yyyy-mm-dd with leading zeros; the
\* function never fails.
C23_DateValidation ==
    DatesCall =>
        LET check_in == op.arg[1]
            check_out == op.arg[2]
            now == op.arg[3]
            ci == Denotes(check_in)
            co == Denotes(check_out)
        IN /\ ~res.raised
           /\ (~ci.ok \/ Before(ci, now)) => IsDefaultStay(res, now)
           /\ (ci.ok /\ Before(now, ci) /\ co.ok /\ ~Before(ci, co)) =>
                 IF AddDays(ci, 1).ok
                 THEN /\ ZeroPadded(res.check_in) /\ ZeroPadded(res.check_out)
                      /\ Denotes(res.check_in) = ci
                      /\ Denotes(res.check_out) = AddDays(ci, 1)
                 ELSE IsDefaultStay(res, now)
           /\ (ci.ok /\ Before(now, ci) /\ co.ok /\ Before(ci, co)) =>
                 /\ ZeroPadded(res.check_in) /\ ZeroPadded(res.check_out)
                 /\ Denotes(res.check_in) = ci
                 /\ Denotes(res.check_out) = co
                 /\ (ZeroPadded(check_in) => res.check_in = check_in)
                 /\ (ZeroPadded(check_out) => res.check_out = check_out)

\* "2026-1-5" with "2026-01-30" came back as "2026-01-05" with "2026-01-30"
C23_Witness ==
    /\ DatesCall
    /\ op.arg[1] = DateStr("-", <<Tok(2026, 4), Tok(1, 1), Tok(5, 1)>>)
    /\ op.arg[2] = DateStr("-", <<Tok(2026, 4), Tok(1, 2), Tok(30, 2)>>)
    /\ res.check_in = DateStr("-", <<Tok(2026, 4), Tok(1, 2), Tok(5, 2)>>)
    /\ res.check_out = op.arg[2]

\* C29: for every pair of arguments _validate_dates returns two yyyy-mm-dd
\* dates, the returned check_out strictly after the returned check_in and the
\* returned check_in strictly after the current date, on every branch.
C29_StayPostcondition ==
    DatesCall =>
        /\ ~res.raised
        /\ ZeroPadded(res.check_in)
        /\ ZeroPadded(res.check_out)
        /\ Before(Denotes(res.check_in), Denotes(res.check_out))
        /\ Before(op.arg[3], Denotes(res.check_in))

\* check_out on the day of check_in was pushed to the next day, into the next month
C29_Witness ==
    /\ DatesCall
    /\ op.arg[1] = DateStr("-", <<Tok(2026, 4), Tok(1, 2), Tok(31, 2)>>)
    /\ op.arg[2] = op.arg[1]
    /\ res.check_out = DateStr("-", <<Tok(2026, 4), Tok(2, 2), Tok(1, 2)>>)

HaversineCall == op.tool = "_haversine_km"

\* C28: the haversine distance of a point from itself is 0 and the distance
\* from a to b is the distance from b to a, with Earth mean radius
\* 6371.0088 km (30 degrees of a meridian are 3335 km, a quarter of it 10007 km).
C28_HaversineSymmetric ==
    HaversineCall =>
        LET a == op.arg[1]
            b == op.arg[2]
        IN /\ res.value = HaversineKm(b[1], b[2], a[1], a[2])
           /\ a = b => res.value = 0
           /\ (a[2] = b[2] /\ Abs(a[1] - b[1]) = 30) => res.value = 3335
           /\ (a[2] = b[2] /\ Abs(a[1] - b[1]) = 90) => res.value = 10007

\* two points that differ in latitude and in longitude, a distance apart
C28_Witness ==
    /\ HaversineCall
    /\ op.arg[1] = <<30, 60>>
    /\ op.arg[2] = <<-60, -120>>
    /\ res.value > 0

(***************************************************************************)
(* Claims about the dispatch of hotels_analyze.                            *)
(***************************************************************************)
\* the by-location search that comprehensive mode delegates to
Delegated(a, env) ==
    hotels_search([location |-> a.location, latitude |-> NoneV, longitude |-> NoneV,
                   min_rating |-> NoneV, max_results |-> SomeV(5), radius |-> NoneV], env)

\* C24: hotels_analyze dispatches on mode: a mode other than location, route or
\* comprehensive gives an error result without a provider call; location mode
\* makes one text lookup with page size 1 and returns the normalized first hit,
\* or the error value "Hotel not found" when the provider returns no place;
\* route mode searches within 5000 m of the arithmetic midpoint of origin and
\* destination; comprehensive mode delegates to the by-location search with a
\* cap of 5 results.
C24_AnalyzeDispatch ==
    op.tool = "hotels_analyze" =>
        LET a == op.analyze
            env == op.env
            answered == env.api_key /\ env.http = "ok"
        IN /\ ~res.raised
           /\ a.mode = "other" =>
                 res.status = "error" /\ res.error # "" /\ res.calls = <<>>
           /\ a.mode = "location" =>
                 /\ Len(res.calls) = 1
                 /\ res.calls[1].fn = "text_search" /\ res.calls[1].size = 1
                 /\ (env.api_key /\ env.http \in {"ok", "error"} /\ env.places = <<>>) =>
                       res.status = "error" /\ res.error = "Hotel not found"
                 /\ (answered /\ env.places # <<>> /\ env.places[1].dict) =>
                       /\ res.status = "success" /\ res.key = "hotel"
                       /\ res.results = <<_normalize_place_data(env.places[1])>>
           /\ (a.mode = "route" /\ a.route.some) =>
                 /\ Len(res.calls) = 1
                 /\ res.calls[1].fn = "nearby_search" /\ res.calls[1].radius = 5000
                 /\ res.calls[1].center.some
                 /\ 2 * res.calls[1].center.latitude.n =
                       (a.route.origin.latitude + a.route.destination.latitude)
                           * res.calls[1].center.latitude.d
                 /\ 2 * res.calls[1].center.longitude.n =
                       (a.route.origin.longitude + a.route.destination.longitude)
                           * res.calls[1].center.longitude.d
           /\ a.mode = "comprehensive" =>
                 /\ res.key = "comprehensive_results"
                 /\ res.results = Delegated(a, env).results
                 /\ res.calls = Delegated(a, env).calls
                 /\ a.location.some =>
                       /\ Len(res.calls) = 1
                       /\ res.calls[1].fn = "text_search" /\ res.calls[1].size = 5

\* route mode found hotels around a midpoint that is no whole number
C24_Witness ==
    /\ op.tool = "hotels_analyze"
    /\ op.analyze.mode = "route"
    /\ op.analyze.route = Route(1, 2, 2, -3)
    /\ res.status = "success"
    /\ res.results # <<>>
    /\ res.calls[1].center.latitude = Half(3)

(***************************************************************************)
(* Claims about Preferences and Dislikes.                                  *)
(***************************************************************************)
\* the keywords with the cuisine list moved to the other input name
OtherName(kwargs) ==
    [kwargs EXCEPT !.cousines = kwargs.cuisines, !.cuisines = kwargs.cousines]

Canonical(s) ==
    /\ s.t = "str" /\ s.sep = "."
    /\ s.f[1].w = 2 /\ s.f[2].w = 2 /\ s.f[3].w = 4
    /\ s.f[3].v >= 1
    /\ s.f[2].v \in 1..12
    /\ s.f[1].v \in 1..DaysIn(s.f[2].v, s.f[3].v)

\* C26: date coercion round-trips the canonical form: for every valid calendar
\* date written as a zero-padded dd.mm.yyyy string s, _coerce_date_like(s) = s,
\* and a DayPlan or a HotelInformation built with such a date stores it
\* unchanged.
C26_CanonicalRoundTrip ==
    (/\ op.tool \in {"_coerce_date_like", "DayPlan._date_ok", "HotelInformation._dates_ok"}
     /\ Canonical(op.arg))
    => (~res.raised /\ res.value = op.arg)

(***************************************************************************)
(* env_utils.py: ensure_env_loaded and get_env.  os.environ and the .env   *)
(* file map a name to its value or to "unset".                             *)
(***************************************************************************)
MaxEnvCalls == 3

EnvNames == {"GOOGLE_MAPS_API_KEY", "SERPAPI_KEY"}

\* mutant: load_dotenv(..., override=True)
M_load_dotenv(env, file) ==
    [name \in EnvNames |-> IF file[name] # "unset" THEN file[name] ELSE env[name]]

\* load_dotenv(dotenv_path=root_env, override=False): os.environ afterwards
load_dotenv(env, file) ==
    [name \in EnvNames |->
        IF env[name] = "unset" /\ file[name] # "unset" THEN file[name] ELSE env[name]]

\* the body of ensure_env_loaded: the flag, os.environ and the number of loads
\* it leaves
EnsureEnvLoaded ==
    IF _ENV_LOADED
    THEN [loaded |-> TRUE, environ |-> environ, loads |-> loads]
    ELSE IF dotenv.found
    THEN [loaded |-> TRUE, environ |-> load_dotenv(environ, dotenv.values),
          loads |-> loads + 1]
    ELSE [loaded |-> TRUE, environ |-> environ, loads |-> loads]

NoGot == [calls |-> 0, key |-> "none", value |-> "none"]

\* ensure_env_loaded()
ensure_env_loaded ==
    /\ got.calls < MaxEnvCalls
    /\ _ENV_LOADED' = EnsureEnvLoaded.loaded
    /\ environ' = EnsureEnvLoaded.environ
    /\ loads' = EnsureEnvLoaded.loads
    /\ got' = [calls |-> got.calls + 1, key |-> "none", value |-> "none"]
    /\ UNCHANGED dotenv
    /\ UNCHANGED varsModel
    /\ UNCHANGED varsSave
    /\ UNCHANGED varsHotels
    /\ UNCHANGED varsConcurrent

\* get_env(key, default)
get_env(key, default) ==
    /\ got.calls < MaxEnvCalls
    /\ _ENV_LOADED' = EnsureEnvLoaded.loaded
    /\ environ' = EnsureEnvLoaded.environ
    /\ loads' = EnsureEnvLoaded.loads
    /\ got' = [calls |-> got.calls + 1, key |-> key,
               value |-> IF key \in EnvNames /\ EnsureEnvLoaded.environ[key] # "unset"
                         THEN EnsureEnvLoaded.environ[key]
                         ELSE default]
    /\ UNCHANGED dotenv
    /\ UNCHANGED varsModel
    /\ UNCHANGED varsSave
    /\ UNCHANGED varsHotels
    /\ UNCHANGED varsConcurrent

\* a process start: the flag is False, os.environ is what the shell exported,
\* the .env file exists or not
InitEnv ==
    /\ IdleModel /\ IdleSave /\ IdleHotels /\ IdleConcurrent
    /\ _ENV_LOADED = FALSE
    /\ environ \in [EnvNames -> {"unset", "shell"}]
    /\ dotenv \in [found : BOOLEAN, values : [EnvNames -> {"unset", "file"}]]
    /\ loads = 0
    /\ got = NoGot

NextEnv ==
    \/ ensure_env_loaded
    \/ \E key \in EnvNames \cup {"OTHER"}, default \in {"None", "default"} : get_env(key, default)

SpecEnv == InitEnv /\ [][NextEnv]_vars

(***************************************************************************)
(* Claims about the loading of the environment.                            *)
(***************************************************************************)
\* C30: environment loading is one-time: over any sequence of
\* ensure_env_loaded and get_env calls the .env file is loaded at most once,
\* the loaded flag never returns from true to false, every call after the
\* first leaves the environment as it is, and loading never overrides a
\* variable already present in the environment.
C30_LoadedOnce ==
    [][/\ loads' <= 1
       /\ _ENV_LOADED => _ENV_LOADED'
       /\ got.calls >= 1 => (_ENV_LOADED /\ environ' = environ /\ loads' = loads)
       /\ \A name \in EnvNames : environ[name] # "unset" => environ'[name] = environ[name]
      ]_vars

\* after three calls: the file was loaded once, a variable of the shell was
\* kept although the file names it, and a variable only the file has was read
C30_Witness ==
    /\ got.calls = 3
    /\ loads = 1
    /\ _ENV_LOADED
    /\ dotenv.found
    /\ dotenv.values["GOOGLE_MAPS_API_KEY"] = "file"
    /\ environ["GOOGLE_MAPS_API_KEY"] = "shell"
    /\ environ["SERPAPI_KEY"] = "file"
    /\ got.key = "SERPAPI_KEY" /\ got.value = "file"

(***************************************************************************)
(* Simultaneous tool calls (SpecConcurrent).  Each call runs in its own    *)
(* thread of the process; the calls share the project directory, and they  *)
(* fall into one second of the clock, so two itineraries for one hotel     *)
(* also share the archive file name.  A call of validate_and_save_itinerary *)
(* takes one step per file operation; a hotel tool touches nothing the     *)
(* other calls can see and takes one step.                                 *)
(***************************************************************************)
NumCalls == 2

Procs == 1..NumCalls

\* a file holding bytes of more than one document: a later, shorter document
\* written over a longer one, or buffers of two writers flushed in turn
Mixed == [state |-> "mixed", keys |-> <<>>, hotel |-> NoHotel, days |-> <<>>]

NoFiles == [path \in Paths |-> Absent]

\* the itineraries the simultaneous calls save: two for the same hotel, one for
\* a hotel without a name, and a document without day_plans
SavedDocs ==
    {d \in JsonInputs :
        /\ d.kind = "object"
        /\ \/ d.keys = <<"hotel_information", "day_plans">>
           \/ d.keys = <<"hotel_information">> /\ d.days = <<>>
        /\ d.hotel \in {HotelDoc(TRUE, "Ritz", NumV(0)), HotelDoc(TRUE, "missing", NumV(0))}
        /\ d.days \in {<<>>, <<D(1, <<P(1)>>)>>}
        /\ d.hotel.name = "missing" => d.days = <<>>}

\* the searches and price lookups made at the same time
SimultaneousSearches ==
    {a \in SearchArgs :
        /\ a.latitude = NoneV /\ a.longitude = NoneV /\ a.min_rating = NoneV
        /\ a.max_results = NoneV /\ a.radius = NoneV}
SimultaneousPlaces == {env \in PlacesEnvs : env.http = "ok" /\ env.places = <<>>}
SimultaneousDetails ==
    {a \in DetailsArgs : a.place_id = "id" /\ a.check_in = NoDateArg /\ a.check_out = NoDateArg}
SimultaneousPrices == {penv \in PriceEnvs : penv.http = "ok" /\ penv.now = Date(25, 2, 2024)}

\* a call: its tool and arguments, where it stands, what it returned, and the
\* files as they were when it returned
IdleProc ==
    [inv |-> NoOp, doc |-> NoInput, pc |-> "idle", result |-> NoResult, left |-> NoFiles]

\* the file the call is at: archive_path first, then frontend_path (line 58)
FilePath(proc) ==
    IF proc.pc \in {"archive", "archive_open"} THEN ArchivePath(json_loads(proc.doc).hotel)
    ELSE FrontendPath

\* what a file holds after a writer that opened it at offset 0 has written its
\* document: the document when nothing else was written since the file was
\* truncated or when the same bytes are there; otherwise the document (it is at
\* least as long as what was there) or a mixture
Overwritten(content, data) ==
    IF content \in {Truncated, json_dump(data)} THEN {json_dump(data)}
    ELSE {json_dump(data), Mixed}

\* lines 18-55: parse, check the two keys, make the directory, build the paths;
\* a document that is refused returns here
SaveBegin(p, doc) ==
    /\ procs[p].pc = "idle"
    /\ LET r == validate_and_save_itinerary(doc, files, "none")
           invocation == Invocation("validate_and_save_itinerary", NoPlacesEnv, NoPriceEnv)
       IN procs' =
             [procs EXCEPT ![p] =
                 IF r.result.status = "error"
                 THEN [inv |-> invocation, doc |-> doc, pc |-> "done",
                       result |-> r.result, left |-> files]
                 ELSE [inv |-> invocation, doc |-> doc, pc |-> "archive",
                       result |-> NoResult, left |-> NoFiles]]
    /\ UNCHANGED <<varsModel, varsSave, varsHotels, varsEnv>>

\* line 59: open(file_path, 'w') truncates the file
OpenFile(p) ==
    /\ procs[p].pc \in {"archive", "frontend"}
    /\ files' = [files EXCEPT ![FilePath(procs[p])] = Truncated]
    /\ procs' = [procs EXCEPT ![p].pc = IF @ = "archive" THEN "archive_open" ELSE "frontend_open"]
    /\ UNCHANGED <<varsModel, pc, input, result, files0, varsHotels, varsEnv>>

\* line 60 and the end of the with block: json.dump and close
JsonDump(p) ==
    /\ procs[p].pc \in {"archive_open", "frontend_open"}
    /\ \E content \in Overwritten(files[FilePath(procs[p])], json_loads(procs[p].doc)) :
          files' = [files EXCEPT ![FilePath(procs[p])] = content]
    /\ procs' = [procs EXCEPT ![p].pc = IF @ = "archive_open" THEN "frontend" ELSE "written"]
    /\ UNCHANGED <<varsModel, pc, input, result, files0, varsHotels, varsEnv>>

\* lines 62-66: return the success record
SaveReturn(p) ==
    /\ procs[p].pc = "written"
    /\ procs' =
          [procs EXCEPT ![p].pc = "done",
                        ![p].result = validate_and_save_itinerary(procs[p].doc, NoFiles, "none").result,
                        ![p].left = files]
    /\ UNCHANGED <<varsModel, varsSave, varsHotels, varsEnv>>

\* a whole call of hotels_search
SearchCall(p, a, env) ==
    /\ procs[p].pc = "idle"
    /\ procs' =
          [procs EXCEPT ![p] =
              [inv |-> [Invocation("hotels_search", env, NoPriceEnv) EXCEPT !.search = a],
               doc |-> NoInput, pc |-> "done", result |-> hotels_search(a, env),
               left |-> files]]
    /\ UNCHANGED <<varsModel, varsSave, varsHotels, varsEnv>>

\* a whole call of hotel_details_and_prices
DetailsCall(p, a, env, penv) ==
    /\ procs[p].pc = "idle"
    /\ procs' =
          [procs EXCEPT ![p] =
              [inv |-> [Invocation("hotel_details_and_prices", env, penv)
                           EXCEPT !.details = a],
               doc |-> NoInput, pc |-> "done",
               result |-> hotel_details_and_prices(a, env, penv), left |-> files]]
    /\ UNCHANGED <<varsModel, varsSave, varsHotels, varsEnv>>

InitConcurrent ==
    /\ IdleModel
    /\ pc = "idle"
    /\ input = NoInput
    /\ result = NoResult
    /\ files = NoFiles
    /\ files0 = files
    /\ IdleHotels
    /\ procs = [p \in Procs |-> IdleProc]
    /\ IdleEnv

NextConcurrent ==
    \/ \E p \in Procs : procs[p].pc = "idle" /\ \E doc \in SavedDocs : SaveBegin(p, doc)
    \/ \E p \in Procs : OpenFile(p)
    \/ \E p \in Procs : JsonDump(p)
    \/ \E p \in Procs : SaveReturn(p)
    \/ \E p \in Procs :
          procs[p].pc = "idle"
          /\ \E a \in SimultaneousSearches, env \in SimultaneousPlaces : SearchCall(p, a, env)
    \/ \E p \in Procs :
          procs[p].pc = "idle"
          /\ \E a \in SimultaneousDetails, env \in SimultaneousPlaces,
                penv \in SimultaneousPrices : DetailsCall(p, a, env, penv)

SpecConcurrent == InitConcurrent /\ [][NextConcurrent]_vars

(***************************************************************************)
(* Claims about simultaneous calls.                                        *)
(***************************************************************************)
\* the call run alone, on the files the simultaneous calls started from: the
\* value it returns and the files it leaves
Alone(proc) ==
    IF proc.inv.tool = "validate_and_save_itinerary"
    THEN validate_and_save_itinerary(proc.doc, NoFiles, "none")
    ELSE IF proc.inv.tool = "hotels_search"
    THEN [result |-> hotels_search(proc.inv.search, proc.inv.env), fs |-> NoFiles]
    ELSE [result |-> hotel_details_and_prices(proc.inv.details, proc.inv.env, proc.inv.penv),
          fs |-> NoFiles]

\* the files the call writes when it runs alone
Output(proc) == {path \in Paths : Alone(proc).fs[path] # NoFiles[path]}

\* C27: concurrent invocations of the core operations do not interfere: in any
\* interleaving of simultaneous calls (searches, details-and-prices, itinerary
\* persistence) each call returns the same result and leaves the same
\* observable output as if it had run alone.
C27_NoInterference ==
    \A p \in DOMAIN procs :
        procs[p].pc = "done" =>
            /\ procs[p].result = Alone(procs[p]).result
            /\ \A path \in Output(procs[p]) : procs[p].left[path] = Alone(procs[p]).fs[path]
=============================================================================
